---------------------------- MODULE Spec2Model ----------------------------
(***************************************************************************)
(* State-machine model of the traffic-control pipeline of nginx-js:        *)
(*   - CircuitBreaker  (packages/features/src/CircuitBreaker.ts)           *)
(*   - PluginManager   (the hook pipeline, unnamed/part_007)               *)
(*   - RateLimiter     (packages/features/src/RateLimiter.ts)              *)
(*   - LoadBalancer    (packages/features/src/LoadBalancer.ts)             *)
(*   - Router          (src/features/Router.ts)                            *)
(* Each component has its own specification (SpecCB, SpecPM, SpecRL,       *)
(* SpecLB, SpecRT, and SpecMP for the router's pattern functions); the     *)
(* variables of the other components stay at their                         *)
(* initial value.                                                          *)
(* Time is a discrete clock `now` (the value Date.now() returns).          *)
(***************************************************************************)
EXTENDS Integers, Sequences, FiniteSets, Bags, TLC

VARIABLES
  \* ---- CircuitBreaker fields (CircuitBreaker.ts:25-36) ----
  state, failureCount, successCount, totalRequests, lastFailureTime,
  requestTimestamps,
  failureThreshold, successThreshold, timeout, resetTimeout, monitoringPeriod,
  \* ---- environment of the breaker ----
  now,        \* Date.now()
  calls,      \* bag of allow() calls awaiting their race (operation vs. timer)
  lateTimers, \* TRUE when a timer is still armed after its race settled
  lateOps,    \* TRUE when an operation is still pending after its race settled
  \* ---- history variables (not read by the modelled code) ----
  cbLast,     \* what the last step of the breaker was
  cbPrev,     \* the state the breaker was in before that step
  hoSuccesses,\* successes recorded since the breaker last entered HALF_OPEN
  okNow,      \* calls that completed with success at the current clock value
              \* (counted up to MaxOk: MaxOk stands for "MaxOk or more")
  failNow,    \* calls that completed with failure at the current clock value
  resets,     \* the reset() calls made so far
  \* ---- PluginManager fields (part_007:14-16) ----
  plugins,       \* Map<string, Plugin>, as the sequence of its values in insertion order
  errorStrategy,
  \* ---- one executeHook invocation (part_007:121-177) ----
  pc,            \* "idle", "awaiting" (a hook's result), "returned", "thrown"
  args,          \* ...args: <<first argument, remaining argument>>
  argType,       \* the `type` field of args[0] ("none": it has no such field)
  todo,          \* the part of enabledPlugins the for loop has not reached yet
  result,        \* let result
  \* ---- history variable ----
  hookLog,       \* the hooks invoked so far: plugin, arguments passed, outcome
  departed,      \* the interceptor plugin object that left the registry
                 \* last (replaced by register or removed by unregister),
                 \* as it is now
  \* ---- RateLimiter fields (RateLimiter.ts:34-41) ----
  algorithm, windowMs, maxRequests,
  keyGenerator,  \* as the set of the keys it returns
  records,       \* Map<string, RequestRecord>, as its entries in insertion order
  \* ---- environment of the limiter ----
  rlNow,         \* Date.now()
  nextCleanup,   \* when the setInterval timer of startCleanup() fires next
  \* ---- history variables ----
  rlLast,        \* what the last step of the limiter was
  lastCalled,    \* per key with a record: the time of its last allowRequest call
  firstAdmit,    \* per key with a record: the time of the first admitted call
  admits,        \* per key with a record: the number of calls admitted since
                 \* the record was created (up to maxRequests + 2, which
                 \* stands for "maxRequests + 2 or more")
  sinceReset,    \* per key with a record: the number of calls admitted since
                 \* the record's resetTime was last set (up to maxRequests + 2)
  evicted,       \* the entries the last sweep removed because the records
                 \* exceeded maxRecords
  recentAdmits,  \* under the sliding window, per key: the times later than
                 \* now - windowMs at which a call was admitted (up to
                 \* maxRequests + 1 of them)
  \* ---- LoadBalancer fields (LoadBalancer.ts:31-35) ----
  servers,       \* BackendServer[]; the field id tells the objects apart
  strategy, currentIndex, connectionCounts, responseTimes,
  \* ---- environment of the balancer ----
  lbNow,         \* Date.now()
  recoveryTimers,\* the pending setTimeout timers of markFailed: the server
                 \* object each holds and the time it is due
  nextId,        \* the identity of the next server object
  \* ---- history variables ----
  lbLast,        \* the last step of the balancer, when it was getNextServer
                 \* (with what it returned) or markSuccess
  downSince,     \* per server object: the time of the markFailed call that
                 \* brought currentFails to maxFails, while no markSuccess
                 \* found the object afterwards (0: there is none)
  failsSince,    \* per server object: the markFailed calls that found it since
                 \* it was added, succeeded or recovered
  rrStable,      \* every getNextServer call so far was made under
                 \* ROUND_ROBIN and saw the same, non-empty, list of
                 \* available servers
  rrCalls,       \* while rrStable: the getNextServer calls so far
  rrServers,     \* while rrStable: the available servers (their identities,
                 \* in list order) these calls saw
  \* ---- Router field (Router.ts:27) ----
  rules,         \* RouteRule[]; the field id tells the stored objects apart
  \* ---- environment of the router ----
  context,       \* the RequestContext the caller holds
  nextRule,      \* the identity of the next stored rule object
  \* ---- history variables ----
  rtLast,        \* the last step of the router, when it was match or route:
                 \* the context before the call and what match returned
  removedRules,  \* the stored rule objects removeRule or clear took away
  created,       \* the url the context had when the caller built it, and
                 \* whether a route call has rewritten the context since
  \* ---- one evaluation of Router._matchPattern and Router._resolveTarget ----
  probe,         \* the arguments: a pattern, a target and a url
  probed,        \* how far the evaluation got, and what was returned
  \* ---- ThrottleStrategy field (Strategies.ts:129) ----
  lastRequestTime, \* Map<string, number>: the urls that have an entry, with it
  \* ---- environment of the throttle ----
  thNow,         \* getTimestamp()
  sleepers,      \* the handleRequest calls waiting on their setTimeout: the
                 \* url of each and the time its timer is due
  \* ---- history variables ----
  released,      \* per url: the times at which handleRequest calls for it
                 \* completed, in order
  statsRead      \* the component whose getStats() was last called

varsCB == <<state, failureCount, successCount, totalRequests, lastFailureTime,
            requestTimestamps, failureThreshold, successThreshold, timeout,
            resetTimeout, monitoringPeriod, now, calls, lateTimers, lateOps, cbLast,
            cbPrev, hoSuccesses, okNow, failNow, resets>>

varsPM == <<plugins, errorStrategy, pc, args, argType, todo, result, hookLog,
            departed>>

varsRL == <<algorithm, windowMs, maxRequests, keyGenerator, records, rlNow, nextCleanup,
            rlLast, lastCalled, firstAdmit, admits, sinceReset, evicted,
            recentAdmits>>

varsLB == <<servers, strategy, currentIndex, connectionCounts, responseTimes,
            lbNow, recoveryTimers, nextId, lbLast, downSince, failsSince,
            rrCalls, rrServers, rrStable>>

\* the variables of the feature components other than the breaker
varsRT == <<rules, context, nextRule, rtLast, removedRules, created>>

varsMP == <<probe, probed>>

varsTH == <<lastRequestTime, thNow, sleepers, released>>

varsFeatures == <<varsRL, varsLB, varsRT, varsMP, varsTH, statsRead>>

vars == <<varsCB, varsPM, varsFeatures>>

-----------------------------------------------------------------------------
(* Bounds of the model *)

MaxTime == 3
MaxInFlight == 2
MaxStamps == 11
MaxOk == 2
\* the last value of the throttle's clock, and the handleRequest calls made
MaxThrottleTime == 5
MaxThrottleCalls == 4
\* the manual reset() calls on the breaker
MaxResets == 1
MaxClock == 5
\* the records above maxRecords when a sweep begins
MaxExcess == 3
MaxAdded == 2
MaxServers == 2
MaxLbTime == 2
MaxFailCount == 2
MaxTimers == 2
MaxCalls == 3
MaxConnections == 1
MaxSamples == 1

(* Program constants *)

MinSample == 10

\* the period of the cleanup timer and the cap on the number of records of
\* the RateLimiter; the limiter's clock counts units of 75 s, so the period
\* of 5 * 60 * 1000 ms is 4 units
CleanupInterval == 4

\* the interval of the ThrottleStrategy, in units of the throttle's clock
ThrottleInterval == 2
MaxRecords == 1000

-----------------------------------------------------------------------------
(* RateLimiter: configurations and construction *)

FIXED_WINDOW == "fixed_window"
SLIDING_WINDOW == "sliding_window"
TOKEN_BUCKET == "token_bucket"
LEAKY_BUCKET == "leaky_bucket"
RateLimitAlgorithm == {FIXED_WINDOW, SLIDING_WINDOW, TOKEN_BUCKET, LEAKY_BUCKET}

\* the keys a keyGenerator returns
RlKeys == {"k1", "k2"}

\* Configurations the constructor is given: every algorithm with a window of
\* 1, 2 requests per window and a keyGenerator that tells two keys apart, and
\* the token bucket also with 49 requests per window of 49 and a keyGenerator
\* that returns one key for every request.
RateLimitConfigs ==
  [algorithm : RateLimitAlgorithm, windowMs : {1}, maxRequests : {2},
   keyGenerator : {RlKeys}]
    \cup {[algorithm |-> TOKEN_BUCKET, windowMs |-> 49, maxRequests |-> 49,
           keyGenerator |-> {"k1"}]}

\* new RateLimiter(config), at clock value 1
NewRateLimiter(config) ==
  /\ algorithm = config.algorithm
  /\ windowMs = config.windowMs
  /\ maxRequests = config.maxRequests
  /\ keyGenerator = config.keyGenerator
  /\ records = <<>>
  /\ rlNow = 1
  /\ nextCleanup = 1 + CleanupInterval
  /\ rlLast = [op |-> "init", key |-> "none", allowed |-> FALSE]
  /\ lastCalled = [k \in RlKeys |-> 0]
  /\ firstAdmit = [k \in RlKeys |-> 0]
  /\ admits = [k \in RlKeys |-> 0]
  /\ sinceReset = [k \in RlKeys |-> 0]
  /\ evicted = <<>>
  /\ recentAdmits = [k \in RlKeys |-> <<>>]

\* the limiter as it is while another component is examined
IdleRateLimiter ==
  NewRateLimiter([algorithm |-> SLIDING_WINDOW, windowMs |-> 1, maxRequests |-> 2,
                  keyGenerator |-> RlKeys])

-----------------------------------------------------------------------------
(* LoadBalancer: strategies and construction *)

ROUND_ROBIN == "round_robin"
WEIGHTED_ROUND_ROBIN == "weighted_round_robin"
LEAST_CONNECTIONS == "least_connections"
IP_HASH == "ip_hash"
RANDOM == "random"
FASTEST == "fastest"
BalanceStrategy ==
  {ROUND_ROBIN, WEIGHTED_ROUND_ROBIN, LEAST_CONNECTIONS, IP_HASH, RANDOM, FASTEST}

LbUrls == {"A", "B"}
ServerIds == 1..MaxAdded

\* lbLast after a step that is neither getNextServer nor markSuccess
NoCall == [op |-> "other", url |-> "none", ret |-> 0]

\* new LoadBalancer(strategy), at clock value 1
NewLoadBalancer(s) ==
  /\ servers = <<>>
  /\ strategy = s
  /\ currentIndex = 0
  /\ connectionCounts = [u \in LbUrls |-> 0]
  /\ responseTimes = [u \in LbUrls |-> <<>>]
  /\ lbNow = 1
  /\ recoveryTimers = {}
  /\ nextId = 1
  /\ lbLast = NoCall
  /\ downSince = [i \in ServerIds |-> 0]
  /\ failsSince = [i \in ServerIds |-> 0]
  /\ rrCalls = 0
  /\ rrServers = <<>>
  /\ rrStable = TRUE

IdleLoadBalancer == NewLoadBalancer(ROUND_ROBIN)

\* ---- Router ----
\* Strings the router inspects (urls, patterns, targets) are sequences of
\* characters.
UrlChars == {"a", "b"}

\* context.metadata: the keys present and their values ({} is EmptyMetadata)
EmptyMetadata == [k \in {} |-> ""]

Metadata(keys, url, text) ==
  [k \in keys |-> IF k = "originalUrl" THEN url ELSE text]

\* a RequestContext: its url and its optional metadata
\* (hasMetadata is FALSE when context.metadata is undefined)
Context(url, hasMetadata, metadata) ==
  [url |-> url, hasMetadata |-> hasMetadata, metadata |-> metadata]

\* the contexts callers hand to the router
RequestContexts ==
  { Context(u, FALSE, EmptyMetadata) : u \in {<<"a">>, <<"a", "b">>} }
    \cup { Context(<<"b">>, TRUE, EmptyMetadata),
           Context(<<"a">>, TRUE, Metadata({"traceId"}, <<>>, "t1")),
           Context(<<"a", "b">>, TRUE,
                   Metadata({"traceId", "originalUrl", "routeRule"}, <<"b">>, "t1")) }

\* a rule and a RouteMatch the router never produced (the shape of null)
NoRule ==
  [id |-> 0, name |-> "", pattern |-> [kind |-> "string", source |-> <<>>],
   target |-> [kind |-> "string", text |-> <<>>], weight |-> 0,
   enabled |-> FALSE, condition |-> "none", type |-> ""]

NoMatch ==
  [found |-> FALSE, rule |-> NoRule, targetUrl |-> <<>>, matches |-> <<>>,
   thrown |-> FALSE]

\* match threw an error
MatchError == [NoMatch EXCEPT !.thrown = TRUE]

NoRoute == [op |-> "other", before |-> Context(<<>>, FALSE, EmptyMetadata),
            match |-> NoMatch]

\* new Router(), with the context the caller holds
NewRouter(ctx) ==
  /\ rules = <<>>
  /\ context = ctx
  /\ nextRule = 1
  /\ rtLast = NoRoute
  /\ removedRules = {}
  /\ created = [url |-> ctx.url, routed |-> FALSE]

IdleRouter == NewRouter(Context(<<"a">>, FALSE, EmptyMetadata))

\* the feature components as they are while another component is examined
\* no evaluation of a pattern was asked for
NoProbe == [step |-> "none", found |-> FALSE, matches |-> <<>>,
            thrown |-> FALSE, targetUrl |-> <<>>]

NewProbe(input) ==
  /\ probe = input
  /\ probed = NoProbe

IdleProbe ==
  NewProbe([pattern |-> [kind |-> "string", source |-> <<>>],
            target |-> [kind |-> "string", text |-> <<>>], url |-> <<>>])

\* the urls ThrottleStrategy.handleRequest is called for
ThrottleUrls == {"/a", "/b"}

\* new ThrottleStrategy(interval), the clock reading one interval: the
\* timestamps of getTimestamp() are greater than any interval in use
NewThrottle ==
  /\ lastRequestTime = [u \in {} |-> 0]
  /\ thNow = ThrottleInterval
  /\ sleepers = <<>>
  /\ released = [u \in ThrottleUrls |-> <<>>]

IdleThrottle == NewThrottle

\* no getStats() call was made
NoStatsRead == statsRead = "none"

IdleFeatures ==
  /\ IdleRateLimiter /\ IdleLoadBalancer /\ IdleRouter /\ IdleProbe
  /\ IdleThrottle /\ NoStatsRead

-----------------------------------------------------------------------------
(* CircuitBreaker *)

CLOSED == "closed"
OPEN == "open"
HALF_OPEN == "half_open"
CircuitState == {CLOSED, OPEN, HALF_OPEN}

\* Configurations the constructor is given (times in clock ticks); the
\* failure threshold is the ratio <<numerator, denominator>>.
FailureThresholds == {<<1, 2>>}
SuccessThresholds == {2}
Timeouts == {1}
ResetTimeouts == {1, 2}
MonitoringPeriods == {2}

\* Array.prototype.filter
RECURSIVE SelectStamps(_, _)
SelectStamps(ts, cutoff) ==
  IF ts = <<>> THEN <<>>
  ELSE IF Head(ts) > cutoff
       THEN <<Head(ts)>> \o SelectStamps(Tail(ts), cutoff)
       ELSE SelectStamps(Tail(ts), cutoff)

Min(a, b) == IF a <= b THEN a ELSE b

\* _cleanOldRequests applied to the fields (ts, total, fc) at time t
CleanOldRequests(ts, total, fc, t) ==
  LET cutoff == t - monitoringPeriod
      kept == SelectStamps(ts, cutoff)
  IN IF Len(kept) < total
     THEN [ts |-> kept, total |-> Len(kept), fc |-> Min(fc, Len(kept))]
     ELSE [ts |-> kept, total |-> total, fc |-> fc]

\* mutant: an OPEN breaker never attempts a reset
ShouldAttemptResetNever == FALSE

\* mutant: the reset timeout is not consulted
ShouldAttemptResetNoTimeout == lastFailureTime # 0

\* _shouldAttemptReset
ShouldAttemptReset ==
  IF lastFailureTime = 0 THEN FALSE
  ELSE now - lastFailureTime >= resetTimeout

\* failureRate >= failureThreshold, failureRate = failureCount / totalRequests
\* (x/0 is Infinity for x > 0 and NaN for x = 0 in the source language)
RateAtLeast(fc, total, thr) ==
  IF total = 0 THEN fc > 0
  ELSE fc * thr[2] >= thr[1] * total

\* what no step of the breaker changes: its configuration, and the PluginManager
ConfigUnchanged ==
  UNCHANGED <<failureThreshold, successThreshold, timeout, resetTimeout,
              monitoringPeriod, resets, varsPM, varsFeatures>>

\* what a manual call leaves alone
ManualUnchanged ==
  UNCHANGED <<failureThreshold, successThreshold, timeout, resetTimeout,
              monitoringPeriod, varsPM, varsFeatures>>

\* mutant: the success counter is kept in every state, not only in HALF_OPEN
OnSuccessNoStateCheck ==
  LET c == CleanOldRequests(requestTimestamps, totalRequests + 1, failureCount, now)
  IN /\ requestTimestamps' = c.ts
     /\ totalRequests' = c.total
     /\ lastFailureTime' = lastFailureTime
     /\ IF successCount + 1 >= successThreshold
        THEN /\ state' = CLOSED
             /\ failureCount' = 0
             /\ successCount' = 0
        ELSE /\ state' = state
             /\ failureCount' = c.fc
             /\ successCount' = successCount + 1

\* mutant: the threshold comparison is strict
OnSuccessStrict ==
  LET c == CleanOldRequests(requestTimestamps, totalRequests + 1, failureCount, now)
  IN /\ requestTimestamps' = c.ts
     /\ totalRequests' = c.total
     /\ lastFailureTime' = lastFailureTime
     /\ IF state = HALF_OPEN
        THEN IF successCount + 1 > successThreshold
             THEN /\ state' = CLOSED
                  /\ failureCount' = 0
                  /\ successCount' = 0
             ELSE /\ state' = state
                  /\ failureCount' = c.fc
                  /\ successCount' = successCount + 1
        ELSE /\ state' = state
             /\ failureCount' = c.fc
             /\ successCount' = successCount

\* _onSuccess
OnSuccess ==
  LET c == CleanOldRequests(requestTimestamps, totalRequests + 1, failureCount, now)
  IN /\ requestTimestamps' = c.ts
     /\ totalRequests' = c.total
     /\ lastFailureTime' = lastFailureTime
     /\ IF state = HALF_OPEN
        THEN IF successCount + 1 >= successThreshold
             THEN /\ state' = CLOSED
                  /\ failureCount' = 0
                  /\ successCount' = 0
             ELSE /\ state' = state
                  /\ failureCount' = c.fc
                  /\ successCount' = successCount + 1
        ELSE /\ state' = state
             /\ failureCount' = c.fc
             /\ successCount' = successCount

\* mutant: a HALF_OPEN failure reopens without clearing the success counter
OnFailureKeepSuccess ==
  LET c == CleanOldRequests(Append(requestTimestamps, now), totalRequests + 1,
                            failureCount + 1, now)
  IN /\ requestTimestamps' = c.ts
     /\ totalRequests' = c.total
     /\ failureCount' = c.fc
     /\ lastFailureTime' = now
     /\ successCount' = successCount
     /\ IF state = HALF_OPEN
        THEN state' = OPEN
        ELSE IF RateAtLeast(c.fc, c.total, failureThreshold) /\ c.total >= MinSample
             THEN state' = OPEN
             ELSE state' = state

\* _onFailure
OnFailure ==
  LET c == CleanOldRequests(Append(requestTimestamps, now), totalRequests + 1,
                            failureCount + 1, now)
  IN /\ requestTimestamps' = c.ts
     /\ totalRequests' = c.total
     /\ failureCount' = c.fc
     /\ lastFailureTime' = now
     /\ IF state = HALF_OPEN
        THEN /\ state' = OPEN
             /\ successCount' = 0
        ELSE /\ successCount' = successCount
             /\ IF RateAtLeast(c.fc, c.total, failureThreshold) /\ c.total >= MinSample
                THEN state' = OPEN
                ELSE state' = state

\* history update of a completed call
RecordSuccess ==
  /\ hoSuccesses' = IF state = HALF_OPEN /\ state' = HALF_OPEN
                    THEN hoSuccesses + 1 ELSE 0
  /\ okNow' = Min(okNow + 1, MaxOk)
  /\ failNow' = failNow

RecordFailure ==
  /\ hoSuccesses' = IF state = HALF_OPEN /\ state' = HALF_OPEN
                    THEN hoSuccesses ELSE 0
  /\ okNow' = okNow
  /\ failNow' = failNow + 1

\* A call awaiting Promise.race([fn(), _timeout()]): `since` is the time
\* allow() invoked the operation and armed the timer, `adm` the state the
\* breaker was in when it did.
Call(t, s) == [since |-> t, adm |-> s]

\* The loser of a settled race stays pending: the timer when the operation
\* settled first (lateTimers), the operation when the timer fired first
\* (lateOps).  Pending losers are not told apart, and when a late timer fires
\* is left open: its firing runs no code of the breaker.

\* allow(), up to the await: the state check and the call of fn()
Allow ==
  /\ BagCardinality(calls) < MaxInFlight
  /\ IF state = OPEN /\ ~ShouldAttemptReset
     THEN \* throw new Error('Circuit breaker is OPEN')
          /\ cbLast' = "rejected"
          /\ UNCHANGED <<state, calls, hoSuccesses>>
     ELSE /\ state' = IF state = OPEN THEN HALF_OPEN ELSE state
          /\ calls' = calls (+) SetToBag({Call(now, state')})
          /\ hoSuccesses' = IF state = OPEN THEN 0 ELSE hoSuccesses
          /\ cbLast' = "allow"
  /\ cbPrev' = state
  /\ UNCHANGED <<failureCount, successCount, totalRequests, lastFailureTime,
                 requestTimestamps, now, lateTimers, lateOps, okNow, failNow>>
  /\ ConfigUnchanged

\* fn() resolves before the timer fires: the race resolves, _onSuccess runs
OpResolve ==
  /\ \E c \in BagToSet(calls) :
       /\ calls' = calls (-) SetToBag({c})
  /\ lateTimers' = TRUE
  /\ UNCHANGED lateOps
  /\ OnSuccess
  /\ RecordSuccess
  /\ cbLast' = "success"
  /\ cbPrev' = state
  /\ UNCHANGED now
  /\ ConfigUnchanged

\* fn() rejects before the timer fires: the race rejects, _onFailure runs
OpReject ==
  /\ Len(requestTimestamps) < MaxStamps
  /\ \E c \in BagToSet(calls) :
       /\ calls' = calls (-) SetToBag({c})
  /\ lateTimers' = TRUE
  /\ UNCHANGED lateOps
  /\ OnFailure
  /\ RecordFailure
  /\ cbLast' = "failure"
  /\ cbPrev' = state
  /\ UNCHANGED now
  /\ ConfigUnchanged

\* the timer of _timeout() fires before fn() settles: the race rejects
TimerFire ==
  /\ Len(requestTimestamps) < MaxStamps
  /\ \E c \in BagToSet(calls) :
       /\ now >= c.since + timeout
       /\ calls' = calls (-) SetToBag({c})
  /\ lateOps' = TRUE
  /\ UNCHANGED lateTimers
  /\ OnFailure
  /\ RecordFailure
  /\ cbLast' = "timeout"
  /\ cbPrev' = state
  /\ UNCHANGED now
  /\ ConfigUnchanged

\* mutant: the late settlement of a lost operation is counted as a failure
LateSettlementCounts ==
  LET c == CleanOldRequests(Append(requestTimestamps, now), totalRequests + 1,
                            failureCount + 1, now)
  IN /\ requestTimestamps' = c.ts
     /\ totalRequests' = c.total
     /\ failureCount' = c.fc
     /\ lastFailureTime' = now
     /\ UNCHANGED <<state, successCount>>

\* what the breaker does when the loser of an already settled race settles
LateSettlement ==
  UNCHANGED <<state, failureCount, successCount, totalRequests,
              lastFailureTime, requestTimestamps>>

\* fn() settles (either way) after the timeout won the race
LateOp ==
  /\ lateOps
  /\ lateOps' \in BOOLEAN
  /\ UNCHANGED lateTimers
  /\ LateSettlement
  /\ cbLast' = "lateOp"
  /\ cbPrev' = state
  /\ UNCHANGED <<now, calls, hoSuccesses, okNow, failNow>>
  /\ ConfigUnchanged

\* the timer fires after fn() won the race
LateTimer ==
  /\ lateTimers
  /\ lateTimers' \in BOOLEAN
  /\ UNCHANGED lateOps
  /\ LateSettlement
  /\ cbLast' = "lateTimer"
  /\ cbPrev' = state
  /\ UNCHANGED <<now, calls, hoSuccesses, okNow, failNow>>
  /\ ConfigUnchanged

\* reset()
\* mutant: reset() keeps the request counter and the timestamps
ResetKeepsRequests ==
  /\ resets < MaxResets
  /\ resets' = resets + 1
  /\ state' = CLOSED
  /\ failureCount' = 0
  /\ successCount' = 0
  /\ hoSuccesses' = 0
  /\ cbLast' = "reset"
  /\ cbPrev' = state
  /\ UNCHANGED <<totalRequests, requestTimestamps, lastFailureTime, now, calls,
                 lateTimers, lateOps, okNow, failNow>>
  /\ ManualUnchanged

Reset ==
  /\ resets < MaxResets
  /\ resets' = resets + 1
  /\ state' = CLOSED
  /\ failureCount' = 0
  /\ successCount' = 0
  /\ totalRequests' = 0
  /\ requestTimestamps' = <<>>
  /\ hoSuccesses' = 0
  /\ cbLast' = "reset"
  /\ cbPrev' = state
  /\ UNCHANGED <<lastFailureTime, now, calls, lateTimers, lateOps, okNow, failNow>>
  /\ ManualUnchanged

\* the clock advances
Tick ==
  /\ now < MaxTime
  /\ now' = now + 1
  /\ cbLast' = "tick"
  /\ cbPrev' = state
  /\ UNCHANGED <<state, failureCount, successCount, totalRequests,
                 lastFailureTime, requestTimestamps, calls, lateTimers, lateOps,
                 hoSuccesses>>
  /\ okNow' = 0
  /\ failNow' = 0
  /\ ConfigUnchanged

\* new CircuitBreaker(config)
NewCircuitBreaker ==
  /\ state = CLOSED
  /\ failureCount = 0
  /\ successCount = 0
  /\ totalRequests = 0
  /\ lastFailureTime = 0
  /\ requestTimestamps = <<>>
  /\ failureThreshold \in FailureThresholds
  /\ successThreshold \in SuccessThresholds
  /\ timeout \in Timeouts
  /\ resetTimeout \in ResetTimeouts
  /\ monitoringPeriod \in MonitoringPeriods
  /\ now = 1
  /\ calls = EmptyBag
  /\ lateTimers = FALSE
  /\ lateOps = FALSE
  /\ cbLast = "init"
  /\ cbPrev = CLOSED
  /\ hoSuccesses = 0
  /\ okNow = 0
  /\ failNow = 0
  /\ resets = 0

\* new PluginManager(debug, errorStrategy) with the given policy, no
\* executeHook invocation under way
NewPluginManager(policy) ==
  /\ plugins = <<>>
  /\ errorStrategy = policy
  /\ pc = "idle"
  /\ args = <<>>
  /\ argType = "none"
  /\ todo = <<>>
  /\ result = "undefined"
  /\ hookLog = <<>>
  /\ departed = [how |-> "none", name |-> "", installed |-> FALSE]

InitCB == NewCircuitBreaker /\ NewPluginManager("continue") /\ IdleFeatures

NextCB ==
  \/ Allow
  \/ OpResolve
  \/ OpReject
  \/ TimerFire
  \/ LateOp
  \/ LateTimer
  \/ Tick

SpecCB == InitCB /\ [][NextCB]_vars

-----------------------------------------------------------------------------
(* PluginManager *)

Undefined == "undefined"
INTERCEPTOR == "interceptor"
BUSINESS == "business"

\* The plugin objects callers hand to register(): `priority` -1 stands for an
\* absent priority, `hook` says whether the object defines the hook that is
\* executed, `requestTypes` {} stands for an absent or empty list (line 135
\* treats both alike), `installable` whether the object has install,
\* uninstall and isInstalled.
PluginNames == {"a", "b"}

PluginObject(n, ty, pr, en, hk, rts, ins) ==
  [name |-> n, type |-> ty, priority |-> pr, enabled |-> en, hook |-> hk,
   requestTypes |-> rts, installable |-> ins, installed |-> FALSE]

ChainPlugins ==
  {PluginObject(n, ty, pr, en, hk, {}, FALSE) :
     n \in PluginNames, ty \in {Undefined, INTERCEPTOR}, pr \in {-1, 10, 20},
     en \in {Undefined, "false"}, hk \in BOOLEAN}

\* the arguments executeHook is called with
FirstArgs == {"v0", Undefined}
ChainArgTypes == {"xhr"}

\* Map.prototype.set: an existing key keeps its place
MapSet(m, p) ==
  IF \E i \in DOMAIN m : m[i].name = p.name
  THEN [i \in DOMAIN m |-> IF m[i].name = p.name THEN p ELSE m[i]]
  ELSE Append(m, p)

\* Map.prototype.delete
MapDelete(m, n) == SelectSeq(m, LAMBDA q : q.name # n)

\* _isInterceptorPlugin
IsInterceptorPlugin(p) == p.type = INTERCEPTOR /\ p.installable

\* the defaults register() writes into the plugin object
WithDefaults(p) ==
  LET ty == IF p.type = Undefined THEN BUSINESS ELSE p.type
      pr == IF p.priority = -1
            THEN (IF ty = INTERCEPTOR THEN 0 ELSE 100)
            ELSE p.priority
      en == IF p.enabled = Undefined THEN "true" ELSE p.enabled
  IN [p EXCEPT !.type = ty, !.priority = pr, !.enabled = en]

\* mutant: the sort key is the priority itself
SortKeyPlain(p) == p.priority

\* mutant: every plugin has the same sort key
SortKeyEqual(p) == 100

\* the sort key of executeHook's comparator: a.priority || 100
SortKey(p) == IF p.priority = 0 THEN 100 ELSE p.priority

\* Array.prototype.sort with that comparator (a stable sort)
RECURSIVE InsertByKey(_, _)
InsertByKey(sorted, p) ==
  IF sorted = <<>> THEN <<p>>
  ELSE IF SortKey(Head(sorted)) <= SortKey(p)
       THEN <<Head(sorted)>> \o InsertByKey(Tail(sorted), p)
       ELSE <<p>> \o sorted

RECURSIVE SortByPriority(_)
SortByPriority(ps) ==
  IF ps = <<>> THEN <<>>
  ELSE InsertByKey(SortByPriority(SubSeq(ps, 1, Len(ps) - 1)), ps[Len(ps)])

\* const enabledPlugins = ...filter(enabled !== false).sort(...)
EnabledPlugins == SortByPriority(SelectSeq(plugins, LAMBDA q : q.enabled # "false"))

\* mutant: the request type is not looked at
ApplicableAnyType(p, ty) == p.hook

\* whether the loop body reaches the hook call for plugin p (lines 132-143)
Applicable(p, ty) ==
  /\ p.hook
  /\ ~(p.requestTypes # {} /\ ty # "none" /\ ty \notin p.requestTypes)

\* the for loop up to its next hook call: the plugins from the first
\* applicable one on
RECURSIVE SkipToApplicable(_, _)
SkipToApplicable(ps, ty) ==
  IF ps = <<>> THEN <<>>
  ELSE IF Applicable(Head(ps), ty) THEN ps
       ELSE SkipToApplicable(Tail(ps), ty)

\* the arguments a hook is applied to (line 147)
HookArgs(res, as) == IF res # Undefined THEN <<res>> \o Tail(as) ELSE as

\* mutant: the hook's result always replaces the running value
NextResultAlways(res, hookResult) == hookResult

\* lines 150-152
NextResult(res, hookResult) == IF hookResult # Undefined THEN hookResult ELSE res

\* the loop runs on from plugin list ps with running value res until it calls
\* the next hook and awaits it, or until it returns
RunLoop(ps, res, log, as, ty) ==
  LET rest == SkipToApplicable(ps, ty)
  IN /\ result' = res
     /\ IF rest = <<>>
        THEN /\ pc' = "returned"
             /\ todo' = <<>>
             /\ hookLog' = log
        ELSE /\ pc' = "awaiting"
             /\ todo' = Tail(rest)
             /\ hookLog' = Append(log, [plugin |-> Head(rest),
                                        name |-> Head(rest).name,
                                        priority |-> Head(rest).priority,
                                        passed |-> HookArgs(res, as),
                                        ret |-> "pending"])

\* the plugin named n in the map m (there is one)
MapGet(m, n) == m[CHOOSE i \in DOMAIN m : m[i].name = n]

MapHas(m, n) == \E i \in DOMAIN m : m[i].name = n

\* the objects of ps named n, changed by Change: a plugin object is shared
\* by the registry and by the enabledPlugins array of a running executeHook
Changed(ps, n, Change(_)) ==
  [i \in DOMAIN ps |-> IF ps[i].name = n THEN Change(ps[i]) ELSE ps[i]]

\* register(plugin)
Register(obj) ==
  /\ pc = "idle"
  /\ plugins' = MapSet(plugins, WithDefaults(obj))
  /\ departed' = IF /\ MapHas(plugins, obj.name)
                    /\ IsInterceptorPlugin(MapGet(plugins, obj.name))
                 THEN [how |-> "replaced", name |-> obj.name,
                       installed |-> MapGet(plugins, obj.name).installed]
                 ELSE departed
  /\ UNCHANGED <<errorStrategy, pc, args, argType, todo, result, hookLog>>
  /\ UNCHANGED <<varsCB, varsFeatures>>

\* plugin.uninstall(), when _isInterceptorPlugin(plugin)
Uninstalled(p) ==
  IF IsInterceptorPlugin(p) THEN [p EXCEPT !.installed = FALSE] ELSE p

\* unregister(pluginName)
Unregister(n) ==
  /\ pc \in {"idle", "awaiting"}
  /\ plugins' = MapDelete(plugins, n)
  /\ todo' = IF MapHas(plugins, n) THEN Changed(todo, n, Uninstalled) ELSE todo
  /\ departed' = IF /\ MapHas(plugins, n)
                    /\ IsInterceptorPlugin(MapGet(plugins, n))
                 THEN [how |-> "unregistered", name |-> n,
                       installed |-> Uninstalled(MapGet(plugins, n)).installed]
                 ELSE departed
  /\ UNCHANGED <<errorStrategy, pc, args, argType, result, hookLog>>
  /\ UNCHANGED <<varsCB, varsFeatures>>

\* enable(): what it does to the plugin found
Enabled(p) ==
  [p EXCEPT !.enabled = "true",
            !.installed = IF IsInterceptorPlugin(p) THEN TRUE ELSE @]

\* enable(pluginName)
Enable(n) ==
  /\ pc \in {"idle", "awaiting"}
  /\ plugins' = Changed(plugins, n, Enabled)
  /\ todo' = IF MapHas(plugins, n) THEN Changed(todo, n, Enabled) ELSE todo
  /\ UNCHANGED <<errorStrategy, pc, args, argType, result, hookLog, departed>>
  /\ UNCHANGED <<varsCB, varsFeatures>>

\* mutant: the plugin stays installed
DisabledKeepInstalled(p) == [p EXCEPT !.enabled = "false"]

\* disable(): what it does to the plugin found
Disabled(p) ==
  [p EXCEPT !.enabled = "false",
            !.installed = IF IsInterceptorPlugin(p) THEN FALSE ELSE @]

\* disable(pluginName)
Disable(n) ==
  /\ pc \in {"idle", "awaiting"}
  /\ plugins' = Changed(plugins, n, Disabled)
  /\ todo' = IF MapHas(plugins, n) THEN Changed(todo, n, Disabled) ELSE todo
  /\ UNCHANGED <<errorStrategy, pc, args, argType, result, hookLog, departed>>
  /\ UNCHANGED <<varsCB, varsFeatures>>

\* setErrorStrategy(strategy)
SetErrorStrategy(s) ==
  /\ pc \in {"idle", "awaiting"}
  /\ errorStrategy' = s
  /\ UNCHANGED <<plugins, pc, args, argType, todo, result, hookLog, departed>>
  /\ UNCHANGED <<varsCB, varsFeatures>>

\* executeHook(hookName, first, rest), up to its first await or its return
ExecuteHook(first, ty) ==
  /\ pc = "idle"
  /\ args' = <<first, "rest">>
  /\ argType' = IF first = Undefined THEN "none" ELSE ty
  /\ RunLoop(EnabledPlugins, first, <<>>, args', argType')
  /\ UNCHANGED <<plugins, errorStrategy, departed>>
  /\ UNCHANGED <<varsCB, varsFeatures>>

\* the awaited hook returns hookResult (a value, or undefined): lines 146-154,
\* then the loop runs on
HookReturns(hookResult) ==
  /\ pc = "awaiting"
  /\ RunLoop(todo, NextResult(result, hookResult),
             [hookLog EXCEPT ![Len(hookLog)].ret = hookResult], args, argType)
  /\ UNCHANGED <<plugins, errorStrategy, args, argType, departed>>
  /\ UNCHANGED <<varsCB, varsFeatures>>

\* mutant: an error always ends the invocation with the running value
CatchOutcomeStop(policy) == "return"

\* mutant: an error never ends the invocation
CatchOutcomeContinue(policy) == "next"

\* the switch of the catch block (lines 162-171)
CatchOutcome(policy) ==
  IF policy = "stop" THEN "return"
  ELSE IF policy = "throw" THEN "throw"
  ELSE "next"

\* the awaited hook throws or rejects: lines 155-172
HookThrows ==
  /\ pc = "awaiting"
  /\ LET log == [hookLog EXCEPT ![Len(hookLog)].ret = "threw"]
     IN IF CatchOutcome(errorStrategy) = "return"
        THEN /\ pc' = "returned"
             /\ hookLog' = log
             /\ UNCHANGED <<todo, result>>
        ELSE IF CatchOutcome(errorStrategy) = "throw"
        THEN /\ pc' = "thrown"
             /\ hookLog' = log
             /\ UNCHANGED <<todo, result>>
        ELSE RunLoop(todo, result, log, args, argType)
  /\ UNCHANGED <<plugins, errorStrategy, args, argType, departed>>
  /\ UNCHANGED <<varsCB, varsFeatures>>

\* the caller takes the outcome of the invocation
Complete ==
  /\ pc \in {"returned", "thrown"}
  /\ pc' = "idle"
  /\ args' = <<>>
  /\ argType' = "none"
  /\ todo' = <<>>
  /\ result' = Undefined
  /\ hookLog' = <<>>
  /\ UNCHANGED <<plugins, errorStrategy, departed>>
  /\ UNCHANGED <<varsCB, varsFeatures>>

\* a breaker nobody calls (the PluginManager specifications leave it alone)
IdleCircuitBreaker ==
  /\ NewCircuitBreaker
  /\ resetTimeout = 1

ErrorStrategies == {"continue", "stop", "throw"}

InitPM ==
  /\ \E s \in ErrorStrategies : NewPluginManager(s)
  /\ IdleCircuitBreaker
  /\ IdleFeatures

NextPM ==
  \/ \E obj \in ChainPlugins : Register(obj)
  \/ \E n \in PluginNames : Unregister(n)
  \/ \E n \in PluginNames : Enable(n)
  \/ \E n \in PluginNames : Disable(n)
  \/ \E s \in ErrorStrategies : SetErrorStrategy(s)
  \/ \E first \in FirstArgs, ty \in ChainArgTypes : ExecuteHook(first, ty)
  \/ \E v \in PluginNames \cup {Undefined} : HookReturns(v)
  \/ HookThrows
  \/ Complete

SpecPM == InitPM /\ [][NextPM]_vars

-----------------------------------------------------------------------------
(* Properties of the CircuitBreaker *)

BreakerFields == <<state, failureCount, successCount, totalRequests,
                   lastFailureTime, requestTimestamps>>

LegalMoves == {<<CLOSED, OPEN>>, <<OPEN, HALF_OPEN>>,
               <<HALF_OPEN, CLOSED>>, <<HALF_OPEN, OPEN>>}

\* C3: the breaker starts CLOSED and, reset() apart, every change of state is
\* CLOSED->OPEN, OPEN->HALF_OPEN, HALF_OPEN->CLOSED or HALF_OPEN->OPEN.
C3_LegalTransitions ==
  /\ state = CLOSED
  /\ [][cbLast' # "reset" =>
          (state' = state \/ <<state, state'>> \in LegalMoves)]_vars

\* the breaker has gone round the whole cycle and closed again
C3_Witness == cbPrev = HALF_OPEN /\ state = CLOSED /\ lastFailureTime # 0

\* C4: allow() on an OPEN breaker whose reset timeout has not elapsed rejects,
\* does not invoke the operation and changes no field of the breaker.
C4_OpenRejects ==
  [][(cbLast' \in {"allow", "rejected"} /\ state = OPEN
        /\ now - lastFailureTime < resetTimeout)
       => (cbLast' = "rejected" /\ calls' = calls /\ UNCHANGED BreakerFields)]_vars

C4_Witness == cbLast = "rejected" /\ state = OPEN /\ calls = EmptyBag

\* the operations admitted in HALF_OPEN whose race is still undecided
TrialsInFlight == {c \in BagToSet(calls) : c.adm = HALF_OPEN}

\* C5: at most one operation admitted in HALF_OPEN is in flight at any time.
C5_SingleTrial ==
  /\ Cardinality(TrialsInFlight) <= 1
  /\ \A c \in TrialsInFlight : CopiesIn(c, calls) = 1

\* C6: a failure in CLOSED with at least MinSample calls completed inside the
\* monitoring period (here: at the current clock value) and a failure rate of
\* at least failureThreshold among them opens the breaker.  okNow < MaxOk
\* keeps to the states where the count of successes is exact.
C6_OpensOnWindowRate ==
  (/\ cbPrev = CLOSED
   /\ cbLast \in {"failure", "timeout"}
   /\ okNow < MaxOk
   /\ okNow + failNow >= MinSample
   /\ failNow * failureThreshold[2] >= failureThreshold[1] * (okNow + failNow))
  => state = OPEN

\* C7: a HALF_OPEN breaker closes exactly on the success that brings the
\* successes recorded since it entered HALF_OPEN to successThreshold; on an
\* earlier success it stays HALF_OPEN.
C7_ClosesAtThreshold ==
  [][(state = HALF_OPEN /\ cbLast' # "reset") =>
       /\ (state' = CLOSED) <=>
            (cbLast' = "success" /\ hoSuccesses + 1 = successThreshold)
       /\ (cbLast' = "success" /\ hoSuccesses + 1 < successThreshold)
            => (state' = HALF_OPEN /\ hoSuccesses' = hoSuccesses + 1)]_vars

C7_Witness ==
  state = HALF_OPEN /\ cbLast = "success" /\ hoSuccesses = 1
    /\ hoSuccesses < successThreshold

\* C8: right after a HALF_OPEN->CLOSED transition every counter is 0 and the
\* failure-timestamp window is empty.
C8_CountersResetOnClose ==
  (cbPrev = HALF_OPEN /\ state = CLOSED /\ cbLast = "success")
  => (/\ failureCount = 0
      /\ successCount = 0
      /\ totalRequests = 0
      /\ requestTimestamps = <<>>)

\* C9: a failure or timeout recorded in HALF_OPEN reopens the breaker, clears
\* successCount and sets lastFailureTime to the time of the failure.
C9_HalfOpenFailureReopens ==
  (cbPrev = HALF_OPEN /\ cbLast \in {"failure", "timeout"})
  => (state = OPEN /\ successCount = 0 /\ lastFailureTime = now)

C9_Witness == cbPrev = HALF_OPEN /\ cbLast = "timeout" /\ state = OPEN

\* C10: a call whose operation was invoked records one outcome: the settling
\* of its race removes it from the pending races, a timeout is recorded once
\* as a failure, and the later settling of the loser changes nothing.
C10_OneOutcomePerCall ==
  [][/\ cbLast' \in {"lateOp", "lateTimer"} => UNCHANGED <<BreakerFields, calls>>
     /\ cbLast' \in {"success", "failure", "timeout"}
          => BagCardinality(calls') = BagCardinality(calls) - 1
     /\ cbLast' = "timeout"
          => /\ Len(requestTimestamps') =
                  Len(SelectStamps(requestTimestamps, now - monitoringPeriod)) + 1
             /\ lastFailureTime' = now
             /\ lateOps']_vars

C10_Witness == cbLast = "lateOp" /\ lastFailureTime # 0

-----------------------------------------------------------------------------
(* Properties of the PluginManager *)

\* C1: within one executeHook invocation the hooks are invoked in ascending
\* order of their plugins' priority, one at a time: only the last invoked
\* hook may still be unsettled.
C1_AscendingPriority ==
  /\ \A i, j \in DOMAIN hookLog :
       i < j => hookLog[i].priority <= hookLog[j].priority
  /\ \A i \in DOMAIN hookLog :
       hookLog[i].ret = "pending" => (i = Len(hookLog) /\ pc = "awaiting")

\* what the invoked hooks log[1..n] make of the running value v
RECURSIVE FoldHooks(_, _, _)
FoldHooks(v, log, n) ==
  IF n = 0 THEN v
  ELSE LET before == FoldHooks(v, log, n - 1)
       IN IF log[n].ret \in {Undefined, "threw", "pending"}
          THEN before ELSE log[n].ret

\* C2: the running value, and the value executeHook returns, is the fold of
\* the invoked hooks over the first argument: every hook was passed the fold
\* of the hooks before it and the original remaining arguments, a defined
\* return value replaces the running value, undefined leaves it; with no
\* hook invoked the result is the first argument.
C2_ResultIsFold ==
  pc \in {"awaiting", "returned"} =>
    /\ result = FoldHooks(args[1], hookLog,
                          IF pc = "awaiting" THEN Len(hookLog) - 1 ELSE Len(hookLog))
    /\ \A i \in DOMAIN hookLog :
         hookLog[i].passed = <<FoldHooks(args[1], hookLog, i - 1)>> \o Tail(args)
    /\ (hookLog = <<>> => result = args[1])

\* an invocation returned after a hook that returned a value and a later hook
\* that returned undefined
C2_Witness ==
  /\ pc = "returned"
  /\ Len(hookLog) = 2
  /\ hookLog[1].ret \notin {Undefined, "threw"}
  /\ hookLog[2].ret = Undefined
  /\ result = hookLog[1].ret

-----------------------------------------------------------------------------
(***************************************************************************)
(* JavaScript numbers.  The token and leaky buckets of the RateLimiter     *)
(* compute with IEEE 754 doubles (RateLimiter.ts:212-215, 227-230).  A     *)
(* non-negative double is modelled as the sequence of its binary digits,   *)
(* most significant first: IntBits digits before the binary point and      *)
(* FracBits after it.  Every operation computes the exact result and       *)
(* rounds it to Precision significant digits, ties to even.                *)
(***************************************************************************)

Precision == 53
IntBits == 9
FracBits == 64

Zeros(n) == [i \in 1..n |-> 0]

NatBits(n, len) == [i \in 1..len |-> (n \div 2^(len - i)) % 2]

RECURSIVE BitsNat(_)
BitsNat(bs) ==
  IF bs = <<>> THEN 0 ELSE 2 * BitsNat(SubSeq(bs, 1, Len(bs) - 1)) + bs[Len(bs)]

FromInt(n) == NatBits(n, IntBits) \o Zeros(FracBits)

IntPart(x) == BitsNat(SubSeq(x, 1, IntBits))

IsInteger(x) == \A i \in (IntBits + 1)..Len(x) : x[i] = 0

\* binary increment of a digit sequence that holds a 0
IncBits(bs) ==
  LET zs == {i \in 1..Len(bs) : bs[i] = 0}
      z == CHOOSE i \in zs : \A j \in zs : j <= i
  IN [i \in 1..Len(bs) |-> IF i < z THEN bs[i] ELSE IF i = z THEN 1 ELSE 0]

\* round an exact result (digits bs, IntBits of them before the point; sticky:
\* the exact result has non-zero digits beyond bs) to a double
RoundBits(bs, sticky) ==
  LET W == IntBits + FracBits
      ones == {i \in 1..Len(bs) : bs[i] = 1}
  IN IF ones = {} THEN Zeros(W)
     ELSE LET lead == CHOOSE i \in ones : \A j \in ones : i <= j
              cut == lead + Precision - 1
          IN IF cut >= Len(bs)
             THEN SubSeq(bs \o Zeros(W), 1, W)
             ELSE LET kept == SubSeq(bs, 1, cut)
                      st == sticky \/ \E i \in (cut + 2)..Len(bs) : bs[i] = 1
                      up == bs[cut + 1] = 1 /\ (st \/ kept[cut] = 1)
                      r == IF up THEN IncBits(kept) ELSE kept
                  IN SubSeq(r \o Zeros(W), 1, W)

\* Exact arithmetic on digit sequences works on limbs of LimbBits digits.
LimbBits == 12
LimbBase == 4096

ToLimbs(bs) ==
  LET pad == (LimbBits - (Len(bs) % LimbBits)) % LimbBits
      padded == Zeros(pad) \o bs
  IN [j \in 1..(Len(padded) \div LimbBits) |->
        BitsNat(SubSeq(padded, LimbBits * (j - 1) + 1, LimbBits * j))]

\* the last len digits of a limb sequence
FromLimbs(ls, len) ==
  LET all == [i \in 1..(LimbBits * Len(ls)) |->
                NatBits(ls[((i - 1) \div LimbBits) + 1], LimbBits)[((i - 1) % LimbBits) + 1]]
  IN SubSeq(all, Len(all) - len + 1, Len(all))

\* limbs of x + y + carry, both of the same length
RECURSIVE AddLimbs(_, _, _)
AddLimbs(x, y, carry) ==
  IF x = <<>> THEN <<>>
  ELSE LET n == Len(x)
           t == x[n] + y[n] + carry
       IN Append(AddLimbs(SubSeq(x, 1, n - 1), SubSeq(y, 1, n - 1), t \div LimbBase),
                 t % LimbBase)

\* limbs of x - y - borrow, for x >= y
RECURSIVE SubLimbs(_, _, _)
SubLimbs(x, y, borrow) ==
  IF x = <<>> THEN <<>>
  ELSE LET n == Len(x)
           t == x[n] - y[n] - borrow
       IN Append(SubLimbs(SubSeq(x, 1, n - 1), SubSeq(y, 1, n - 1),
                          IF t < 0 THEN 1 ELSE 0),
                 IF t < 0 THEN t + LimbBase ELSE t)

\* limbs of x * n + carry
RECURSIVE MulLimbs(_, _, _)
MulLimbs(x, n, carry) ==
  IF x = <<>> THEN <<>>
  ELSE LET k == Len(x)
           t == x[k] * n + carry
       IN Append(MulLimbs(SubSeq(x, 1, k - 1), n, t \div LimbBase), t % LimbBase)

\* the first k limbs after the point of r / b, for 0 <= r < b, and what is left
RECURSIVE FracLimbs(_, _, _)
FracLimbs(r, b, k) ==
  IF k = 0 THEN [limbs |-> <<>>, rem |-> r]
  ELSE LET rest == FracLimbs((r * LimbBase) % b, b, k - 1)
       IN [limbs |-> <<(r * LimbBase) \div b>> \o rest.limbs, rem |-> rest.rem]

AddBits(x, y) == FromLimbs(AddLimbs(ToLimbs(x), ToLimbs(y), 0), Len(x))
SubBits(x, y) == FromLimbs(SubLimbs(ToLimbs(x), ToLimbs(y), 0), Len(x))
MulBits(x, n) == FromLimbs(MulLimbs(ToLimbs(x), n, 0), Len(x))

\* x < y
FLess(x, y) ==
  IF IntPart(x) # IntPart(y) THEN IntPart(x) < IntPart(y)
  ELSE LET diff == {i \in (IntBits + 1)..Len(x) : x[i] # y[i]}
       IN diff # {} /\ LET m == CHOOSE i \in diff : \A j \in diff : i <= j
                       IN x[m] < y[m]

\* The operations of a double.  Integers below 2^IntBits and their sums,
\* differences and products are doubles: they need no rounding.

\* a / b for integers a >= 0, b > 0
FDiv(a, b) ==
  IF a % b = 0 THEN FromInt(a \div b) ELSE
  LET k == (FracBits + 2 + LimbBits - 1) \div LimbBits
      f == FracLimbs(a % b, b, k)
  IN RoundBits(NatBits(a \div b, IntBits) \o FromLimbs(f.limbs, LimbBits * k),
               f.rem # 0)

\* x * n for an integer n >= 0
FMul(x, n) ==
  IF IsInteger(x) THEN FromInt(IntPart(x) * n) ELSE RoundBits(MulBits(x, n), FALSE)

\* x + y
FAdd(x, y) ==
  IF IsInteger(x) /\ IsInteger(y) THEN FromInt(IntPart(x) + IntPart(y))
  ELSE RoundBits(AddBits(x, y), FALSE)

\* x - y, for x >= y
FSub(x, y) ==
  IF IsInteger(x) /\ IsInteger(y) THEN FromInt(IntPart(x) - IntPart(y))
  ELSE RoundBits(SubBits(x, y), FALSE)

\* Math.min(n, x) and Math.max(0, x - y)
FMin(x, y) == IF FLess(y, x) THEN y ELSE x
FSubMax0(x, y) == IF FLess(x, y) THEN FromInt(0) ELSE FSub(x, y)

-----------------------------------------------------------------------------
(* RateLimiter *)

\* _createRecord()
CreateRecord ==
  [count |-> FromInt(0), resetTime |-> rlNow + windowMs, timestamps |-> <<>>,
   tokens |-> FromInt(maxRequests), lastRefill |-> rlNow]

\* _fixedWindow(record, now): the record as it is left, and the result
FixedWindowNoReset(record, t) ==
  IF ~FLess(record.count, FromInt(maxRequests))
  THEN [record |-> record, allowed |-> FALSE]
  ELSE [record |-> [record EXCEPT !.count = FAdd(@, FromInt(1))], allowed |-> TRUE]

FixedWindow(record, t) ==
  LET r == IF t >= record.resetTime
           THEN [record EXCEPT !.count = FromInt(0), !.resetTime = t + windowMs]
           ELSE record
  IN IF ~FLess(r.count, FromInt(maxRequests))
     THEN [record |-> r, allowed |-> FALSE]
     ELSE [record |-> [r EXCEPT !.count = FAdd(@, FromInt(1))], allowed |-> TRUE]

\* _slidingWindow(record, now)
SlidingWindowNoFilter(record, t) ==
  IF Len(record.timestamps) >= maxRequests
  THEN [record |-> record, allowed |-> FALSE]
  ELSE [record |-> [record EXCEPT !.timestamps = Append(@, t),
                                  !.count = FromInt(Len(record.timestamps) + 1)],
        allowed |-> TRUE]

\* mutant: a call is denied only when the list exceeds maxRequests
SlidingWindowOverLimit(record, t) ==
  LET ts == SelectStamps(record.timestamps, t - windowMs)
  IN IF Len(ts) > maxRequests
     THEN [record |-> [record EXCEPT !.timestamps = ts], allowed |-> FALSE]
     ELSE [record |-> [record EXCEPT !.timestamps = Append(ts, t),
                                     !.count = FromInt(Len(ts) + 1)],
           allowed |-> TRUE]

SlidingWindow(record, t) ==
  LET ts == SelectStamps(record.timestamps, t - windowMs)
  IN IF Len(ts) >= maxRequests
     THEN [record |-> [record EXCEPT !.timestamps = ts], allowed |-> FALSE]
     ELSE [record |-> [record EXCEPT !.timestamps = Append(ts, t),
                                     !.count = FromInt(Len(ts) + 1)],
           allowed |-> TRUE]

\* now - (record.lastRefill || now)
TimePassed(record, t) == t - (IF record.lastRefill = 0 THEN t ELSE record.lastRefill)

\* _tokenBucket(record, now), from the refilled level on
TakeToken(record, t, tokens) ==
  IF FLess(tokens, FromInt(1))
  THEN [record |-> [record EXCEPT !.tokens = tokens, !.lastRefill = t],
        allowed |-> FALSE]
  ELSE [record |-> [record EXCEPT !.tokens = FSub(tokens, FromInt(1)),
                                  !.lastRefill = t],
        allowed |-> TRUE]

\* _tokenBucket(record, now)
TokenBucket(record, t) ==
  TakeToken(record, t,
            FMin(FromInt(maxRequests),
                 FAdd(record.tokens,
                      FMul(FDiv(TimePassed(record, t), windowMs), maxRequests))))

\* _leakyBucket(record, now), from the leaked level on
FillBucket(record, t, count) ==
  IF ~FLess(count, FromInt(maxRequests))
  THEN [record |-> [record EXCEPT !.count = count, !.lastRefill = t],
        allowed |-> FALSE]
  ELSE [record |-> [record EXCEPT !.count = FAdd(count, FromInt(1)),
                                  !.lastRefill = t],
        allowed |-> TRUE]

\* _leakyBucket(record, now)
LeakyBucket(record, t) ==
  FillBucket(record, t,
             FSubMax0(record.count,
                      FMul(FDiv(TimePassed(record, t), windowMs), maxRequests)))

\* the switch of allowRequest
Algorithm(record, t) ==
  CASE algorithm = FIXED_WINDOW -> FixedWindow(record, t)
    [] algorithm = SLIDING_WINDOW -> SlidingWindow(record, t)
    [] algorithm = TOKEN_BUCKET -> TokenBucket(record, t)
    [] algorithm = LEAKY_BUCKET -> LeakyBucket(record, t)

\* this.records.get(key): the position of the entry, 0 when there is none
RecordIndex(rs, k) ==
  IF \E i \in DOMAIN rs : rs[i].key = k
  THEN CHOOSE i \in DOMAIN rs : rs[i].key = k
  ELSE 0

HasRecord(rs, k) == RecordIndex(rs, k) # 0
RecordOf(rs, k) == rs[RecordIndex(rs, k)].record

RlConfigUnchanged ==
  UNCHANGED <<algorithm, windowMs, maxRequests, keyGenerator, varsCB, varsPM, varsLB,
              varsRT, varsMP, varsTH, statsRead>>

\* allowRequest(context) from the switch on: i is the position of the record
\* of key k (0: it was created for this call), res what the algorithm made of it
Allowed(k, i, record, res) ==
  LET rs == IF i = 0 THEN Append(records, [key |-> k, record |-> record]) ELSE records
      j == IF i = 0 THEN Len(rs) ELSE i
  IN /\ records' = [rs EXCEPT ![j].record = res.record]
     /\ rlLast' = [op |-> "allowRequest", key |-> k, allowed |-> res.allowed]
     /\ lastCalled' = [lastCalled EXCEPT ![k] = rlNow]
     /\ firstAdmit' = [firstAdmit EXCEPT ![k] =
                         IF res.allowed /\ (i = 0 \/ @ = 0) THEN rlNow
                         ELSE IF i = 0 THEN 0 ELSE @]
     /\ admits' = [admits EXCEPT ![k] =
                     IF res.allowed
                     THEN Min((IF i = 0 THEN 0 ELSE @) + 1, maxRequests + 2)
                     ELSE IF i = 0 THEN 0 ELSE @]
     /\ sinceReset' = [sinceReset EXCEPT ![k] =
                         LET n == IF i = 0 \/ res.record.resetTime # record.resetTime
                                  THEN 0 ELSE @
                         IN IF res.allowed THEN Min(n + 1, maxRequests + 2) ELSE n]
     /\ recentAdmits' = [recentAdmits EXCEPT ![k] =
                           IF algorithm = SLIDING_WINDOW /\ res.allowed
                                /\ Len(@) <= maxRequests
                           THEN Append(@, rlNow) ELSE @]
     /\ UNCHANGED <<rlNow, nextCleanup, evicted>>
     /\ RlConfigUnchanged

\* allowRequest(context), keyGenerator(context) being k
AllowRequest(k) ==
  LET i == RecordIndex(records, k)
      record == IF i = 0 THEN CreateRecord ELSE records[i].record
  IN Allowed(k, i, record, Algorithm(record, rlNow))

\* the history of a key ends with its record
ForgetDeleted ==
  /\ lastCalled' = [k \in RlKeys |-> IF HasRecord(records', k) THEN lastCalled[k] ELSE 0]
  /\ firstAdmit' = [k \in RlKeys |-> IF HasRecord(records', k) THEN firstAdmit[k] ELSE 0]
  /\ admits' = [k \in RlKeys |-> IF HasRecord(records', k) THEN admits[k] ELSE 0]
  /\ sinceReset' = [k \in RlKeys |-> IF HasRecord(records', k) THEN sinceReset[k] ELSE 0]
  /\ UNCHANGED recentAdmits

\* reset(key)
ResetKey(k) ==
  /\ records' = SelectSeq(records, LAMBDA e : e.key # k)
  /\ rlLast' = [op |-> "reset", key |-> k, allowed |-> FALSE]
  /\ ForgetDeleted
  /\ UNCHANGED <<rlNow, nextCleanup, evicted>>
  /\ RlConfigUnchanged

\* Array.prototype.sort((a, b) => a[1].resetTime - b[1].resetTime), stable:
\* the entries of the smallest resetTime in their order, then the rest sorted
RECURSIVE SortedByTimes(_, _)
SortedByTimes(rs, times) ==
  IF times = {} THEN <<>>
  ELSE LET t == CHOOSE u \in times : \A v \in times : u <= v
       IN SelectSeq(rs, LAMBDA e : e.record.resetTime = t)
            \o SortedByTimes(rs, times \ {t})

SortByResetTime(rs) ==
  SortedByTimes(rs, {rs[i].record.resetTime : i \in DOMAIN rs})

\* the test of _cleanupExpiredRecords on one record
Expired(e) == rlNow - e.record.resetTime > windowMs * 2

\* the records left when the expired keys are deleted
Unexpired == SelectSeq(records, LAMBDA e : ~Expired(e))

\* mutant: the newest records are removed for the cap
ToRemoveNewest(kept) ==
  IF Len(kept) > MaxRecords
  THEN SubSeq(SortByResetTime(kept), MaxRecords + 1, Len(kept))
  ELSE <<>>

\* sortedEntries.slice(0, this.records.size - this.maxRecords), when the
\* records exceed maxRecords
ToRemove(kept) ==
  IF Len(kept) > MaxRecords
  THEN SubSeq(SortByResetTime(kept), 1, Len(kept) - MaxRecords)
  ELSE <<>>

\* toRemove.forEach(([key]) => this.records.delete(key))
Retained(kept, toRemove) ==
  LET keys == {toRemove[i].key : i \in DOMAIN toRemove}
  IN SelectSeq(kept, LAMBDA e : e.key \notin keys)

\* what _cleanupExpiredRecords leaves of the records
CleanedRecords == Retained(Unexpired, ToRemove(Unexpired))

\* the setInterval timer of startCleanup() fires: _cleanupExpiredRecords()
CleanupExpiredRecords ==
  /\ rlNow >= nextCleanup
  /\ \E toRemove \in {ToRemove(Unexpired)} :
       /\ records' = Retained(Unexpired, toRemove)
       /\ evicted' = toRemove
  /\ nextCleanup' = nextCleanup + CleanupInterval
  /\ rlLast' = [op |-> "cleanup", key |-> "none", allowed |-> FALSE]
  /\ ForgetDeleted
  /\ UNCHANGED rlNow
  /\ RlConfigUnchanged

\* the clock advances; a cleanup that is due runs first
RlTick ==
  /\ rlNow < MaxClock
  /\ rlNow < nextCleanup
  /\ rlNow' = rlNow + 1
  /\ rlLast' = [op |-> "tick", key |-> "none", allowed |-> FALSE]
  /\ recentAdmits' = [k \in RlKeys |->
                        SelectSeq(recentAdmits[k], LAMBDA t : t > rlNow + 1 - windowMs)]
  /\ UNCHANGED <<records, nextCleanup, lastCalled, firstAdmit, admits, sinceReset,
                 evicted>>
  /\ RlConfigUnchanged

InitRL ==
  /\ \E config \in RateLimitConfigs : NewRateLimiter(config)
  /\ IdleCircuitBreaker
  /\ NewPluginManager("continue")
  /\ IdleLoadBalancer
  /\ IdleRouter
  /\ IdleProbe
  /\ IdleThrottle
  /\ NoStatsRead

NextRL ==
  \/ \E k \in keyGenerator : AllowRequest(k)
  \/ \E k \in keyGenerator : ResetKey(k)
  \/ CleanupExpiredRecords
  \/ RlTick

SpecRL == InitRL /\ [][NextRL]_vars

-----------------------------------------------------------------------------
(* Properties of the RateLimiter *)

\* the record allowRequest(k) works on: the one of k, or a new one
WorkingRecord(k) == IF HasRecord(records, k) THEN RecordOf(records, k) ELSE CreateRecord

\* the time of the first admitted call of k, which for a key without a record
\* is the call being made, and the number of calls admitted so far
FirstAdmitOf(k) == IF HasRecord(records, k) THEN firstAdmit[k] ELSE rlNow
AdmitsOf(k) == IF HasRecord(records, k) THEN admits[k] ELSE 0

C12_TokenBucketRefill ==
  [][(algorithm = TOKEN_BUCKET /\ rlLast'.op = "allowRequest") =>
       LET k == rlLast'.key
           t1 == FirstAdmitOf(k)
           n == AdmitsOf(k)
           wait == windowMs \div maxRequests
       IN /\ (rlNow = t1 /\ n < maxRequests) => rlLast'.allowed
          /\ (rlNow = t1 /\ n = maxRequests) => ~rlLast'.allowed
          /\ (/\ windowMs % maxRequests = 0
              /\ rlNow = t1 + wait
              /\ n = maxRequests
              /\ WorkingRecord(k).lastRefill = t1) => rlLast'.allowed
          /\ (/\ windowMs % maxRequests = 0
              /\ rlNow = t1 + wait
              /\ n = maxRequests + 1) => ~rlLast'.allowed
          /\ \A i \in DOMAIN records' :
               ~FLess(FromInt(maxRequests), records'[i].record.tokens)]_vars

\* C13: fixed window: the call resets the counter (and sets resetTime anew)
\* exactly when now >= resetTime, is admitted exactly when the counter, after
\* that reset, is below maxRequests, and counts itself when admitted; the
\* counter, and the number of calls admitted since resetTime was last set,
\* never exceed maxRequests.
C13_FixedWindowCounter ==
  [][(algorithm = FIXED_WINDOW /\ rlLast'.op = "allowRequest") =>
       LET k == rlLast'.key
           pre == WorkingRecord(k)
           post == RecordOf(records', k)
           due == rlNow >= pre.resetTime
           base == IF due THEN 0 ELSE IntPart(pre.count)
       IN /\ IsInteger(pre.count) /\ IsInteger(post.count)
          /\ (post.resetTime # pre.resetTime) <=> due
          /\ rlLast'.allowed <=> (base < maxRequests)
          /\ IntPart(post.count) = base + (IF rlLast'.allowed THEN 1 ELSE 0)
          /\ IntPart(post.count) <= maxRequests
          /\ sinceReset'[k] <= maxRequests]_vars

\* a call was denied in a window that a reset opened
C13_Witness ==
  /\ algorithm = FIXED_WINDOW
  /\ rlLast.op = "allowRequest" /\ ~rlLast.allowed
  /\ HasRecord(records, rlLast.key)
  /\ RecordOf(records, rlLast.key).resetTime > firstAdmit[rlLast.key] + windowMs
  /\ sinceReset[rlLast.key] = maxRequests

\* C14: while there are no more records than the cap, a cleanup keeps the
\* record of every key that allowRequest was called for within the last
\* 2 * windowMs.
C14_CleanupKeepsActive ==
  [][rlLast'.op = "cleanup" =>
       \A i \in DOMAIN records :
         (/\ Len(records) <= MaxRecords
          /\ rlNow - lastCalled[records[i].key] <= windowMs * 2)
           => HasRecord(records', records[i].key)]_vars

-----------------------------------------------------------------------------
(* LoadBalancer *)

\* The servers addServer is given (times in clock ticks): the caller sets
\* url, enabled, maxFails and failTimeout.
ServerConfigs == [url : LbUrls, enabled : BOOLEAN, maxFails : {2}, failTimeout : {1}]

\* the strings _ipHash hashes (clientIp or url), as their character codes
HashInputs == {<<97>>, <<98>>, <<97, 98>>}

\* the object addServer pushes: the defaults, overridden by ...server
NewServer(server, id) ==
  [id |-> id, url |-> server.url, weight |-> 1, enabled |-> server.enabled,
   healthy |-> TRUE, maxFails |-> server.maxFails, currentFails |-> 0,
   failTimeout |-> server.failTimeout]

\* this.servers.find((s) => s.url === url): the position, 0 when there is none
FindServer(url) ==
  IF \E i \in DOMAIN servers : servers[i].url = url
  THEN CHOOSE i \in DOMAIN servers :
         servers[i].url = url /\ \A j \in DOMAIN servers : servers[j].url = url => i <= j
  ELSE 0

\* _getHealthyServers()
HealthyServersUnfiltered == servers
HealthyServers == SelectSeq(servers, LAMBDA sv : sv.enabled /\ sv.healthy)

\* _hashCode(str); the strings hashed are short enough for 32 bits
RECURSIVE HashCode(_)
HashCode(str) ==
  IF str = <<>> THEN 0
  ELSE HashCode(SubSeq(str, 1, Len(str) - 1)) * 31 + str[Len(str)]

Abs(n) == IF n < 0 THEN -n ELSE n

\* _getAverageResponseTime(url) < _getAverageResponseTime(other); the average
\* of no response times is Infinity
RECURSIVE Sum(_)
Sum(ts) == IF ts = <<>> THEN 0 ELSE Head(ts) + Sum(Tail(ts))

AverageLess(u, v) ==
  LET a == responseTimes[u]
      b == responseTimes[v]
  IN /\ a # <<>>
     /\ (b = <<>> \/ Sum(a) * Len(b) < Sum(b) * Len(a))

\* servers.reduce((fastest, server) => serverTime < fastestTime ? server : fastest)
RECURSIVE ReduceFastest(_, _)
ReduceFastest(fastest, rest) ==
  IF rest = <<>> THEN fastest
  ELSE ReduceFastest(IF AverageLess(Head(rest).url, fastest.url)
                     THEN Head(rest) ELSE fastest,
                     Tail(rest))

\* servers.reduce((min, server) => serverCount < minCount ? server : min)
RECURSIVE ReduceLeast(_, _)
ReduceLeast(min, rest) ==
  IF rest = <<>> THEN min
  ELSE ReduceLeast(IF connectionCounts[Head(rest).url] < connectionCounts[min.url]
                   THEN Head(rest) ELSE min,
                   Tail(rest))

\* what the strategy may select from the non-empty list avail, str being the
\* string _ipHash hashes; Math.random() is any number in [0, 1)
RoundRobinStuck(avail) == {avail[1]}
RoundRobin(avail) == {avail[(currentIndex % Len(avail)) + 1]}

Select(avail, str) ==
  CASE strategy = ROUND_ROBIN -> RoundRobin(avail)
    [] strategy = WEIGHTED_ROUND_ROBIN -> {avail[i] : i \in DOMAIN avail}
    [] strategy = LEAST_CONNECTIONS ->
         {ReduceLeast(Head(avail), Tail(avail))}
    [] strategy = IP_HASH -> {avail[(Abs(HashCode(str)) % Len(avail)) + 1]}
    [] strategy = RANDOM -> {avail[i] : i \in DOMAIN avail}
    [] strategy = FASTEST -> {ReduceFastest(Head(avail), Tail(avail))}

LbHistoryUnchanged == UNCHANGED <<downSince, failsSince, rrCalls, rrServers, rrStable>>
LbOthersUnchanged ==
  UNCHANGED <<varsCB, varsPM, varsRL, varsRT, varsMP, varsTH, statsRead>>

\* addServer(server)
AddServer(server) ==
  /\ nextId <= MaxAdded
  /\ Len(servers) < MaxServers
  /\ servers' = Append(servers, NewServer(server, nextId))
  /\ nextId' = nextId + 1
  /\ connectionCounts' = [connectionCounts EXCEPT ![server.url] = 0]
  /\ responseTimes' = [responseTimes EXCEPT ![server.url] = <<>>]
  /\ lbLast' = NoCall
  /\ UNCHANGED <<strategy, currentIndex, lbNow, recoveryTimers>>
  /\ LbHistoryUnchanged
  /\ LbOthersUnchanged

\* removeServer(url)
RemoveServer(url) ==
  /\ servers' = SelectSeq(servers, LAMBDA sv : sv.url # url)
  /\ connectionCounts' = [connectionCounts EXCEPT ![url] = 0]
  /\ responseTimes' = [responseTimes EXCEPT ![url] = <<>>]
  /\ lbLast' = NoCall
  /\ UNCHANGED <<strategy, currentIndex, lbNow, recoveryTimers, nextId>>
  /\ LbHistoryUnchanged
  /\ LbOthersUnchanged

Ids(svs) == [i \in DOMAIN svs |-> svs[i].id]

\* getNextServer(context): ret is the identity of the server returned, 0 for null
GetNextServer(str) ==
  LET avail == HealthyServers
      stable == /\ rrStable
                /\ strategy = ROUND_ROBIN
                /\ avail # <<>>
                /\ (rrCalls = 0 \/ rrServers = Ids(avail))
  IN /\ currentIndex < MaxCalls
     /\ IF avail = <<>>
        THEN /\ lbLast' = [op |-> "getNextServer", url |-> "none", ret |-> 0]
             /\ UNCHANGED currentIndex
        ELSE \E sv \in Select(avail, str) :
               /\ lbLast' = [op |-> "getNextServer", url |-> sv.url, ret |-> sv.id]
               /\ currentIndex' = IF strategy = ROUND_ROBIN
                                  THEN currentIndex + 1 ELSE currentIndex
     /\ rrStable' = stable
     /\ rrCalls' = IF stable THEN rrCalls + 1 ELSE 0
     /\ rrServers' = IF stable THEN Ids(avail) ELSE <<>>
     /\ UNCHANGED <<servers, strategy, connectionCounts, responseTimes, lbNow,
                    recoveryTimers, nextId, downSince, failsSince>>
     /\ LbOthersUnchanged

\* incrementConnections(url)
IncrementConnections(url) ==
  /\ connectionCounts[url] < MaxConnections
  /\ connectionCounts' = [connectionCounts EXCEPT ![url] = @ + 1]
  /\ lbLast' = NoCall
  /\ UNCHANGED <<servers, strategy, currentIndex, responseTimes, lbNow,
                 recoveryTimers, nextId>>
  /\ LbHistoryUnchanged
  /\ LbOthersUnchanged

\* decrementConnections(url)
DecrementConnections(url) ==
  /\ connectionCounts' = [connectionCounts EXCEPT ![url] = IF @ = 0 THEN 0 ELSE @ - 1]
  /\ lbLast' = NoCall
  /\ UNCHANGED <<servers, strategy, currentIndex, responseTimes, lbNow,
                 recoveryTimers, nextId>>
  /\ LbHistoryUnchanged
  /\ LbOthersUnchanged

\* recordResponseTime(url, time)
RecordResponseTime(url, time) ==
  /\ Len(responseTimes[url]) < MaxSamples
  /\ responseTimes' = [responseTimes EXCEPT ![url] =
                         IF Len(@) + 1 > 100 THEN Tail(Append(@, time))
                         ELSE Append(@, time)]
  /\ lbLast' = NoCall
  /\ UNCHANGED <<servers, strategy, currentIndex, connectionCounts, lbNow,
                 recoveryTimers, nextId>>
  /\ LbHistoryUnchanged
  /\ LbOthersUnchanged

\* markFailed(url)
MarkFailed(url) ==
  LET i == FindServer(url)
  IN /\ lbLast' = NoCall
     /\ IF i = 0
        THEN UNCHANGED <<servers, recoveryTimers, downSince, failsSince>>
        ELSE LET sv == servers[i]
                 fails == sv.currentFails + 1
                 down == fails >= sv.maxFails
             IN /\ sv.currentFails < MaxFailCount
                /\ down => Cardinality(recoveryTimers) < MaxTimers
                /\ servers' = [servers EXCEPT ![i] =
                                 [sv EXCEPT !.currentFails = fails,
                                            !.healthy = IF down THEN FALSE ELSE @]]
                /\ recoveryTimers' =
                     IF down
                     THEN recoveryTimers \cup {[id |-> sv.id, due |-> lbNow + sv.failTimeout]}
                     ELSE recoveryTimers
                /\ failsSince' = [failsSince EXCEPT ![sv.id] = @ + 1]
                /\ downSince' = [downSince EXCEPT ![sv.id] =
                                   IF fails = sv.maxFails THEN lbNow ELSE @]
     /\ UNCHANGED <<strategy, currentIndex, connectionCounts, responseTimes, lbNow,
                    nextId, rrCalls, rrServers, rrStable>>
     /\ LbOthersUnchanged

\* what markSuccess makes of the server it finds
SucceededKeepFails(sv) == [sv EXCEPT !.healthy = TRUE]
Succeeded(sv) == [sv EXCEPT !.currentFails = 0, !.healthy = TRUE]

\* markSuccess(url)
MarkSuccess(url) ==
  LET i == FindServer(url)
  IN /\ lbLast' = [op |-> "markSuccess", url |-> url, ret |-> 0]
     /\ IF i = 0
        THEN UNCHANGED <<servers, downSince, failsSince>>
        ELSE /\ servers' = [servers EXCEPT ![i] = Succeeded(@)]
             /\ failsSince' = [failsSince EXCEPT ![servers[i].id] = 0]
             /\ downSince' = [downSince EXCEPT ![servers[i].id] = 0]
     /\ UNCHANGED <<strategy, currentIndex, connectionCounts, responseTimes, lbNow,
                    recoveryTimers, nextId, rrCalls, rrServers, rrStable>>
     /\ LbOthersUnchanged

\* setStrategy(strategy)
SetStrategy(s) ==
  /\ strategy' = s
  /\ lbLast' = NoCall
  /\ UNCHANGED <<servers, currentIndex, connectionCounts, responseTimes, lbNow,
                 recoveryTimers, nextId>>
  /\ LbHistoryUnchanged
  /\ LbOthersUnchanged

\* a timer of markFailed fires: _tryRecoverServer(server), on the object the
\* timer holds, which may have left the list
TryRecoverServer ==
  \E tm \in recoveryTimers :
    /\ lbNow >= tm.due
    /\ recoveryTimers' = recoveryTimers \ {tm}
    /\ servers' = [i \in DOMAIN servers |->
                     IF servers[i].id = tm.id
                     THEN [servers[i] EXCEPT !.healthy = TRUE, !.currentFails = 0]
                     ELSE servers[i]]
    /\ failsSince' = [failsSince EXCEPT ![tm.id] = 0]
    /\ lbLast' = NoCall
    /\ UNCHANGED <<strategy, currentIndex, connectionCounts, responseTimes, lbNow,
                   nextId, downSince, rrCalls, rrServers, rrStable>>
    /\ LbOthersUnchanged

\* the clock advances; the timers that are due fire first
LbTick ==
  /\ lbNow < MaxLbTime
  /\ \A tm \in recoveryTimers : tm.due > lbNow
  /\ lbNow' = lbNow + 1
  /\ lbLast' = NoCall
  /\ UNCHANGED <<servers, strategy, currentIndex, connectionCounts, responseTimes,
                 recoveryTimers, nextId>>
  /\ LbHistoryUnchanged
  /\ LbOthersUnchanged

InitLB ==
  /\ \E s \in BalanceStrategy : NewLoadBalancer(s)
  /\ IdleCircuitBreaker
  /\ NewPluginManager("continue")
  /\ IdleRateLimiter
  /\ IdleRouter
  /\ IdleProbe
  /\ IdleThrottle
  /\ NoStatsRead

\* Connection counts are read by LEAST_CONNECTIONS and response times by
\* FASTEST only: the callers report them under these strategies.  The
\* strategy is the one the balancer was constructed with.
NextLB ==
  \/ \E server \in ServerConfigs : AddServer(server)
  \/ \E url \in LbUrls : RemoveServer(url)
  \/ \E str \in HashInputs : GetNextServer(str)
  \/ strategy = LEAST_CONNECTIONS /\ \E url \in LbUrls : IncrementConnections(url)
  \/ strategy = LEAST_CONNECTIONS /\ \E url \in LbUrls : DecrementConnections(url)
  \/ strategy = FASTEST /\ \E url \in LbUrls, time \in {1, 2} : RecordResponseTime(url, time)
  \/ \E url \in LbUrls : MarkFailed(url)
  \/ \E url \in LbUrls : MarkSuccess(url)
  \/ TryRecoverServer
  \/ LbTick

SpecLB == InitLB /\ [][NextLB]_vars

-----------------------------------------------------------------------------
(* Properties of the LoadBalancer *)

\* the server object with identity id is in the list
InList(id) == \E i \in DOMAIN servers : servers[i].id = id
ServerWithId(id) == servers[CHOOSE i \in DOMAIN servers : servers[i].id = id]

\* C15: what getNextServer returns is a server of the list that is enabled
\* and healthy, and it returns null exactly when the list holds no such server.
C15_ReturnsAvailableServer ==
  lbLast.op = "getNextServer" =>
    /\ lbLast.ret # 0 =>
         /\ InList(lbLast.ret)
         /\ ServerWithId(lbLast.ret).enabled
         /\ ServerWithId(lbLast.ret).healthy
    /\ lbLast.ret = 0 <=>
         ~\E i \in DOMAIN servers : servers[i].enabled /\ servers[i].healthy

\* a server was returned while another server of the list was disabled or
\* unhealthy
C15_Witness ==
  /\ lbLast.op = "getNextServer"
  /\ lbLast.ret # 0
  /\ \E i \in DOMAIN servers :
       servers[i].id # lbLast.ret /\ (~servers[i].enabled \/ ~servers[i].healthy)

\* C16: a server whose failures markFailed brought to maxFails at time t, with
\* no markSuccess since, is not returned by getNextServer before
\* t + failTimeout, and is healthy once the time t + failTimeout is reached
\* and the timers due have fired.
C16_ExcludedUntilFailTimeout ==
  /\ (lbLast.op = "getNextServer" /\ lbLast.ret # 0 /\ downSince[lbLast.ret] # 0)
       => lbNow >= downSince[lbLast.ret] + ServerWithId(lbLast.ret).failTimeout
  /\ \A i \in DOMAIN servers :
       (/\ downSince[servers[i].id] # 0
        /\ lbNow >= downSince[servers[i].id] + servers[i].failTimeout
        /\ \A tm \in recoveryTimers : tm.id = servers[i].id => tm.due > lbNow)
         => servers[i].healthy

\* C17: under ROUND_ROBIN, while every call saw the same non-empty list of
\* n available servers, the k-th getNextServer call returns the server at
\* position (k - 1) mod n of that list.
C17_RoundRobinOrder ==
  (lbLast.op = "getNextServer" /\ rrStable /\ rrCalls > 0) =>
    lbLast.ret = rrServers[((rrCalls - 1) % Len(rrServers)) + 1]

\* the third call over two servers returned the first server again
C17_Witness ==
  /\ lbLast.op = "getNextServer"
  /\ rrStable
  /\ rrCalls = 3
  /\ Len(rrServers) = 2
  /\ lbLast.ret = rrServers[1]

\* C18: markSuccess(url) leaves the server it finds with no failures and
\* healthy; a healthy server becomes unhealthy only in a markFailed call that
\* brings the failures since it was added, succeeded or recovered to
\* maxFails; a server with fewer such failures is healthy.
C18_HealthFollowsFailures ==
  [][/\ (lbLast'.op = "markSuccess" /\ FindServer(lbLast'.url) # 0) =>
          /\ servers'[FindServer(lbLast'.url)].currentFails = 0
          /\ servers'[FindServer(lbLast'.url)].healthy
     /\ \A i \in DOMAIN servers, j \in DOMAIN servers' :
          (servers[i].id = servers'[j].id /\ servers[i].healthy /\ ~servers'[j].healthy)
            => /\ failsSince'[servers[i].id] = failsSince[servers[i].id] + 1
               /\ failsSince'[servers[i].id] = servers[i].maxFails
     /\ \A j \in DOMAIN servers' :
          failsSince'[servers'[j].id] < servers'[j].maxFails => servers'[j].healthy]_vars

\* markSuccess found a server that markFailed had made unhealthy, its
\* recovery timer still pending
C18_Witness ==
  /\ lbLast.op = "markSuccess"
  /\ FindServer(lbLast.url) # 0
  /\ servers[FindServer(lbLast.url)].healthy
  /\ \E tm \in recoveryTimers : tm.id = servers[FindServer(lbLast.url)].id

-----------------------------------------------------------------------------
(***************************************************************************)
(* Router (src/features/Router.ts)                                         *)
(***************************************************************************)

\* ---- the regular expressions of _matchPattern ----
\* A regular expression is the sequence of the characters of its source:
\* a literal character or "." (any character), each optionally followed by
\* "*"; "(" and ")" around a capturing group (groups are neither nested nor
\* repeated); "^" allowed in first and "$" in last position.  Patterns have
\* no flags.

AtomMatches(atom, ch) == atom = "." \/ atom = ch

\* the longest run of characters from position q on that the atom matches
StarRun(atom, str, q) ==
  LET runs == {k \in 0..(Len(str) - q + 1) :
                 \A j \in 0..(k - 1) : AtomMatches(atom, str[q + j])}
  IN  CHOOSE k \in runs : \A other \in runs : other <= k

\* the matcher found no match
NoResult == [end |-> -1, caps |-> <<>>]

RECURSIVE MatchHere(_, _, _, _, _, _)
RECURSIVE TryStar(_, _, _, _, _, _, _)

\* the backtracking matcher: re from position p against str from position q,
\* caps being the groups captured so far and open the position the group
\* being captured started at; the position of the last character matched
\* (q - 1 for the empty match) with the captured groups, or NoResult
MatchHere(re, str, p, q, caps, open) ==
  IF p > Len(re) THEN [end |-> q - 1, caps |-> caps]
  ELSE IF re[p] = "$" /\ p = Len(re)
    THEN (IF q = Len(str) + 1 THEN [end |-> q - 1, caps |-> caps] ELSE NoResult)
  ELSE IF re[p] = "("
    THEN MatchHere(re, str, p + 1, q, caps, q)
  ELSE IF re[p] = ")"
    THEN MatchHere(re, str, p + 1, q, Append(caps, SubSeq(str, open, q - 1)), 0)
  ELSE IF p < Len(re) /\ re[p + 1] = "*"
    THEN TryStar(re, str, p, q, StarRun(re[p], str, q), caps, open)
  ELSE IF q <= Len(str) /\ AtomMatches(re[p], str[q])
    THEN MatchHere(re, str, p + 1, q + 1, caps, open)
  ELSE NoResult

\* a greedy star: k repetitions first, then fewer
TryStar(re, str, p, q, k, caps, open) ==
  IF MatchHere(re, str, p + 2, q + k, caps, open).end >= 0
    THEN MatchHere(re, str, p + 2, q + k, caps, open)
  ELSE IF k = 0 THEN NoResult
  ELSE TryStar(re, str, p, q, k - 1, caps, open)

RECURSIVE Balanced(_, _, _)
\* the parentheses of re from position i on close the depth open groups
Balanced(re, i, depth) ==
  IF i > Len(re) THEN depth = 0
  ELSE IF re[i] = "(" THEN Balanced(re, i + 1, depth + 1)
  ELSE IF re[i] = ")" THEN depth > 0 /\ Balanced(re, i + 1, depth - 1)
  ELSE Balanced(re, i + 1, depth)

\* new RegExp(re) returns: it throws a SyntaxError for an unterminated or
\* unopened group and for a "*" with nothing to repeat
Compiles(re) ==
  /\ Balanced(re, 1, 0)
  /\ \A i \in 1..Len(re) :
       re[i] = "*" => i > 1 /\ re[i - 1] \notin {"*", "(", "^"}

NoMatches == [found |-> FALSE, matches |-> <<>>, thrown |-> FALSE]

\* the call threw a SyntaxError
PatternError == [found |-> FALSE, matches |-> <<>>, thrown |-> TRUE]

\* the match array: the matched text, then the captured groups
MatchArray(url, q, res) ==
  [found |-> TRUE, matches |-> <<SubSeq(url, q, res.end)>> \o res.caps,
   thrown |-> FALSE]

\* url.match(regex): null, or the array of the leftmost match
RegExpMatch(re, url) ==
  IF re # <<>> /\ re[1] = "^"
    THEN IF MatchHere(re, url, 2, 1, <<>>, 0).end >= 0
           THEN MatchArray(url, 1, MatchHere(re, url, 2, 1, <<>>, 0))
           ELSE NoMatches
    ELSE LET starts == {q \in 1..(Len(url) + 1) :
                          MatchHere(re, url, 1, q, <<>>, 0).end >= 0}
         IN  IF starts = {} THEN NoMatches
             ELSE LET q0 == CHOOSE q \in starts : \A other \in starts : q <= other
                  IN  MatchArray(url, q0, MatchHere(re, url, 1, q0, <<>>, 0))

RECURSIVE ReplaceChar(_, _, _)
\* text.replace(/ch/g, by)
ReplaceChar(text, ch, by) ==
  IF text = <<>> THEN <<>>
  ELSE (IF Head(text) = ch THEN by ELSE <<Head(text)>>)
         \o ReplaceChar(Tail(text), ch, by)

\* the regular expression source a string pattern is turned into
GlobRegex(source) ==
  <<"^">> \o ReplaceChar(ReplaceChar(source, "*", <<".", "*">>), "?", <<".">>)
          \o <<"$">>

\* _matchPattern(url, pattern); new RegExp throws for a string pattern that
\* does not compile, a RegExp object is compiled already
MatchPattern(url, pattern) ==
  IF pattern.kind = "string"
    THEN IF Compiles(GlobRegex(pattern.source))
           THEN RegExpMatch(GlobRegex(pattern.source), url)
           ELSE PatternError
    ELSE RegExpMatch(pattern.source, url)

\* ---- _resolveTarget ----
RECURSIVE GetSubstitution(_, _)
\* the text String.prototype.replace inserts for the replacement string by,
\* the regular expression having no groups: "$$" stands for "$" and "$&"
\* for the matched text, "$" before a digit is literal
GetSubstitution(by, matched) ==
  IF Len(by) < 2 THEN by
  ELSE IF by[1] = "$" /\ by[2] = "$"
    THEN <<"$">> \o GetSubstitution(SubSeq(by, 3, Len(by)), matched)
  ELSE IF by[1] = "$" /\ by[2] = "&"
    THEN matched \o GetSubstitution(SubSeq(by, 3, Len(by)), matched)
  ELSE <<by[1]>> \o GetSubstitution(Tail(by), matched)

RECURSIVE ReplaceAll(_, _, _)
\* text.replace(new RegExp(what, 'g'), by), what being literal text
ReplaceAll(text, what, by) ==
  IF Len(text) < Len(what) THEN text
  ELSE IF SubSeq(text, 1, Len(what)) = what
    THEN GetSubstitution(by, what)
           \o ReplaceAll(SubSeq(text, Len(what) + 1, Len(text)), what, by)
  ELSE <<Head(text)>> \o ReplaceAll(Tail(text), what, by)

Digits == <<"0", "1", "2", "3", "4", "5", "6", "7", "8", "9">>

RECURSIVE Substitute(_, _, _)
\* matches.forEach((match, index) => result = result.replace(/\$index/g, match)),
\* from the element at position index on
Substitute(text, matches, index) ==
  IF index >= Len(matches) THEN text
  ELSE Substitute(ReplaceAll(text, <<"$", Digits[index + 1]>>, matches[index + 1]),
                  matches, index + 1)

\* the resolver function rules are given: (context) => context.url + "b"
TargetFunction(ctx, matches) == ctx.url \o <<"b">>

\* _resolveTarget(target, context, matches); match passes a match array
ResolveTarget(target, ctx, matches) ==
  IF target.kind = "function" THEN TargetFunction(ctx, matches)
  ELSE Substitute(target.text, matches, 0)

\* ---- the rules ----
MaxRuleAdds == 3   \* addRule calls
MaxUrlLen == 3     \* route is called on urls shorter than this

StringPattern(source) == [kind |-> "string", source |-> source]
RegExpPattern(source) == [kind |-> "regexp", source |-> source]
StringTarget(text) == [kind |-> "string", text |-> text]
FunctionTarget == [kind |-> "function", text |-> <<>>]

\* the RouteRule objects callers register; `given` names the optional
\* fields the object has
RouteRules ==
  { [name |-> "r1", pattern |-> StringPattern(<<"a", "*">>),
     target |-> StringTarget(<<"b">>), given |-> {},
     enabled |-> TRUE, condition |-> "none", type |-> ""],
    [name |-> "r2", pattern |-> RegExpPattern(<<"b">>),
     target |-> StringTarget(<<"$", "0", "a">>), given |-> {"type"},
     enabled |-> TRUE, condition |-> "none", type |-> "proxy"],
    [name |-> "r1", pattern |-> StringPattern(<<"?">>),
     target |-> FunctionTarget, given |-> {"enabled"},
     enabled |-> FALSE, condition |-> "none", type |-> ""],
    [name |-> "r2", pattern |-> StringPattern(<<"a", "*">>),
     target |-> StringTarget(<<"a">>), given |-> {"condition", "type"},
     enabled |-> TRUE, condition |-> "hasMetadata", type |-> "redirect"],
    [name |-> "r3", pattern |-> StringPattern(<<"b">>),
     target |-> StringTarget(<<"a">>), given |-> {"condition"},
     enabled |-> TRUE, condition |-> "never", type |-> ""],
    [name |-> "r3", pattern |-> StringPattern(<<"(", "a">>),
     target |-> StringTarget(<<"a">>), given |-> {},
     enabled |-> TRUE, condition |-> "none", type |-> ""] }

RuleNames == {"r1", "r2", "r3"}

\* the object addRule stores: the defaults, overridden by the rule's fields
StoredRule(rule, id) ==
  [id |-> id, name |-> rule.name, pattern |-> rule.pattern,
   target |-> rule.target, weight |-> 1,
   enabled |-> IF "enabled" \in rule.given THEN rule.enabled ELSE TRUE,
   condition |-> IF "condition" \in rule.given THEN rule.condition ELSE "none",
   type |-> IF "type" \in rule.given THEN rule.type ELSE "rewrite"]

\* rule.condition(context), for the predicates rules are given:
\* (c) => !!c.metadata and () => false
Condition(condition, ctx) ==
  IF condition = "hasMetadata" THEN ctx.hasMetadata ELSE FALSE

\* the rule is not tried against the url
SkippedIgnoringEnabled(rule, ctx) ==
  rule.condition # "none" /\ ~Condition(rule.condition, ctx)

\* match(): the two `continue` tests of the loop
Skipped(rule, ctx) ==
  \/ ~rule.enabled
  \/ rule.condition # "none" /\ ~Condition(rule.condition, ctx)

RECURSIVE MatchFrom(_, _, _)
\* the for loop of match(), from the rule at position i on
MatchFrom(rs, ctx, i) ==
  IF i > Len(rs) THEN NoMatch
  ELSE IF Skipped(rs[i], ctx) THEN MatchFrom(rs, ctx, i + 1)
  ELSE IF MatchPattern(ctx.url, rs[i].pattern).thrown THEN MatchError
  ELSE IF MatchPattern(ctx.url, rs[i].pattern).found
    THEN [found |-> TRUE, rule |-> rs[i],
          targetUrl |-> ResolveTarget(rs[i].target, ctx,
                                      MatchPattern(ctx.url, rs[i].pattern).matches),
          matches |-> MatchPattern(ctx.url, rs[i].pattern).matches,
          thrown |-> FALSE]
  ELSE MatchFrom(rs, ctx, i + 1)

\* match(context)
Match(ctx) == MatchFrom(rules, ctx, 1)

\* metadata[key] = value
Put(metadata, key, value) ==
  [k \in DOMAIN metadata \cup {key} |-> IF k = key THEN value ELSE metadata[k]]

\* the context with a fresh metadata object holding the three route keys
RoutedFreshMetadata(ctx, m) ==
  Context(m.targetUrl, TRUE,
          Put(Put(Put(EmptyMetadata, "originalUrl", ctx.url),
                  "routeRule", m.rule.name),
              "routeType", m.rule.type))

\* route(): the body of `if (match)`
Routed(ctx, m) ==
  Context(m.targetUrl, TRUE,
          Put(Put(Put(ctx.metadata, "originalUrl", ctx.url),
                  "routeRule", m.rule.name),
              "routeType", m.rule.type))

RtOthersUnchanged ==
  UNCHANGED <<varsCB, varsPM, varsRL, varsLB, varsMP, varsTH, statsRead>>

\* addRule(rule)
AddRule(rule) ==
  /\ nextRule <= MaxRuleAdds
  /\ rules' = Append(rules, StoredRule(rule, nextRule))
  /\ nextRule' = nextRule + 1
  /\ rtLast' = NoRoute
  /\ UNCHANGED <<context, created, removedRules>>
  /\ RtOthersUnchanged

\* removeRule(name)
RemoveRule(name) ==
  LET Kept(rule) == rule.name # name
  IN  /\ rules' = SelectSeq(rules, Kept)
      /\ removedRules' = removedRules \cup
           {rules[i].id : i \in {j \in 1..Len(rules) : rules[j].name = name}}
      /\ rtLast' = NoRoute
      /\ UNCHANGED <<context, created, nextRule>>
      /\ RtOthersUnchanged

\* this.rules.find((r) => r.name === name): its position, 0 when undefined
FindRule(name) ==
  IF \E i \in 1..Len(rules) : rules[i].name = name
    THEN CHOOSE i \in 1..Len(rules) :
           /\ rules[i].name = name
           /\ \A j \in 1..(i - 1) : rules[j].name # name
    ELSE 0

SetEnabled(name, enabled) ==
  /\ rules' = IF FindRule(name) = 0 THEN rules
              ELSE [rules EXCEPT ![FindRule(name)].enabled = enabled]
  /\ rtLast' = NoRoute
  /\ UNCHANGED <<context, created, nextRule, removedRules>>
  /\ RtOthersUnchanged

\* enableRule(name)
EnableRule(name) == SetEnabled(name, TRUE)

\* disableRule(name)
DisableRule(name) == SetEnabled(name, FALSE)

\* clear()
Clear ==
  /\ rules' = <<>>
  /\ removedRules' = removedRules \cup {rules[i].id : i \in 1..Len(rules)}
  /\ rtLast' = NoRoute
  /\ UNCHANGED <<context, created, nextRule>>
  /\ RtOthersUnchanged

\* the caller takes up another request
NewContext(ctx) ==
  /\ context' = ctx
  /\ created' = [url |-> ctx.url, routed |-> FALSE]
  /\ rtLast' = NoRoute
  /\ UNCHANGED <<rules, nextRule, removedRules>>
  /\ RtOthersUnchanged

\* match(context)
MatchCall ==
  /\ rtLast' = [op |-> IF Match(context).thrown THEN "matchThrew" ELSE "match",
                before |-> context, match |-> Match(context)]
  /\ UNCHANGED <<rules, context, created, nextRule, removedRules>>
  /\ RtOthersUnchanged

\* route(context)
RouteCall ==
  /\ Len(context.url) < MaxUrlLen
  /\ context' = IF Match(context).found THEN Routed(context, Match(context))
                ELSE context
  /\ rtLast' = [op |-> IF Match(context).thrown THEN "routeThrew" ELSE "route",
                before |-> context, match |-> Match(context)]
  /\ created' = [created EXCEPT !.routed = @ \/ Match(context).found]
  /\ UNCHANGED <<rules, nextRule, removedRules>>
  /\ RtOthersUnchanged

InitRT ==
  /\ \E ctx \in RequestContexts : NewRouter(ctx)
  /\ IdleCircuitBreaker
  /\ NewPluginManager("continue")
  /\ IdleRateLimiter
  /\ IdleLoadBalancer
  /\ IdleProbe
  /\ IdleThrottle
  /\ NoStatsRead

NextRT ==
  \/ \E rule \in RouteRules : AddRule(rule)
  \/ \E name \in RuleNames : RemoveRule(name)
  \/ \E name \in RuleNames : EnableRule(name)
  \/ \E name \in RuleNames : DisableRule(name)
  \/ Clear
  \/ \E ctx \in RequestContexts : NewContext(ctx)
  \/ MatchCall
  \/ RouteCall

SpecRT == InitRT /\ [][NextRT]_vars

-----------------------------------------------------------------------------
(***************************************************************************)
(* Router: properties                                                      *)
(***************************************************************************)

\* the rule is enabled, its condition (if any) holds for the context and
\* its pattern matches the context's url
Qualifies(rule, ctx) ==
  /\ rule.enabled
  /\ rule.condition = "none" \/ Condition(rule.condition, ctx)
  /\ MatchPattern(ctx.url, rule.pattern).found

\* the positions of the registered rules that qualify for the context
Qualifying(ctx) == {i \in 1..Len(rules) : Qualifies(rules[i], ctx)}

\* C19: match returns the first rule in registration order that is
\* enabled, whose condition (if any) is true for the context and whose
\* pattern matches context.url; a rule that is disabled, was removed or
\* whose condition is false does not win; the result is null when no rule
\* qualifies.
C19_FirstQualifyingRuleWins ==
  rtLast.op = "match" =>
    IF Qualifying(rtLast.before) = {}
      THEN ~rtLast.match.found
      ELSE /\ rtLast.match.found
           /\ rtLast.match.rule =
                rules[CHOOSE i \in Qualifying(rtLast.before) :
                        \A j \in Qualifying(rtLast.before) : i <= j]
           /\ rtLast.match.rule.enabled
           /\ rtLast.match.rule.id \notin removedRules
           /\ rtLast.match.rule.condition # "none"
                => Condition(rtLast.match.rule.condition, rtLast.before)

\* match returned a rule that is not the first registered: a rule before it
\* matches the url by its pattern but is disabled or has a false
\* condition, and a rule was removed earlier
C19_Witness ==
  /\ rtLast.op = "match"
  /\ rtLast.match.found
  /\ removedRules # {}
  /\ Len(rules) >= 2
  /\ rtLast.match.rule = rules[2]
  /\ MatchPattern(rtLast.before.url, rules[1].pattern).found
  /\ ~Qualifies(rules[1], rtLast.before)

\* the metadata keys route writes
RouteKeys == {"originalUrl", "routeRule", "routeType"}

\* C20: after route(context), when a rule matched, metadata.originalUrl is
\* the url the context had before the call, metadata.routeRule and
\* metadata.routeType are the winning rule's name and type, context.url is
\* the resolved target and every other metadata key is kept with its
\* value; when no rule matched, the context is as it was.
C20_RouteRecordsAndKeeps ==
  rtLast.op = "route" =>
    IF rtLast.match.found
      THEN /\ context.hasMetadata
           /\ RouteKeys \subseteq DOMAIN context.metadata
           /\ context.metadata["originalUrl"] = rtLast.before.url
           /\ context.metadata["routeRule"] = rtLast.match.rule.name
           /\ context.metadata["routeType"] = rtLast.match.rule.type
           /\ context.url = ResolveTarget(rtLast.match.rule.target, rtLast.before,
                                          rtLast.match.matches)
           /\ \A k \in DOMAIN rtLast.before.metadata \ RouteKeys :
                /\ k \in DOMAIN context.metadata
                /\ context.metadata[k] = rtLast.before.metadata[k]
      ELSE context = rtLast.before

\* route rewrote the url of a context whose metadata held another key
C20_Witness ==
  /\ rtLast.op = "route"
  /\ rtLast.match.found
  /\ rtLast.before.hasMetadata
  /\ "traceId" \in DOMAIN rtLast.before.metadata
  /\ context.url # rtLast.before.url

\* C21: once route has rewritten a context, metadata.originalUrl is the url
\* the context had when it was created, however many route calls followed.
C21_OriginalUrlPreserved ==
  created.routed =>
    /\ context.hasMetadata
    /\ "originalUrl" \in DOMAIN context.metadata
    /\ context.metadata["originalUrl"] = created.url

\* the regular expression the rule's pattern stands for is well formed
WellFormed(rule) ==
  rule.pattern.kind = "string" => Compiles(GlobRegex(rule.pattern.source))

\* C22: a string pattern that does not compile to a regular expression is
\* rejected by addRule, so that no registered rule has one, and neither
\* match nor route raises an error because of a registered rule's pattern.
C22_MalformedPatternFailsAtAddRule ==
  /\ \A i \in 1..Len(rules) : WellFormed(rules[i])
  /\ rtLast.op \notin {"matchThrew", "routeThrew"}

-----------------------------------------------------------------------------
(***************************************************************************)
(* Router._matchPattern and Router._resolveTarget as functions of their    *)
(* arguments                                                               *)
(***************************************************************************)

MaxPatternLen == 2   \* characters of a generated string pattern
MaxProbeUrl == 3     \* characters of a generated url

\* the sequences of at most n elements of S
SeqsUpTo(S, n) == UNION {[1..k -> S] : k \in 0..n}

Text_health == <<"/", "h", "e", "a", "l", "t", "h">>
Text_api == <<"/", "a", "p", "i", "/", "v">>

\* string patterns against urls
GlobProbes ==
  { [pattern |-> StringPattern(src), target |-> StringTarget(<<"$", "0">>),
     url |-> u] :
      src \in SeqsUpTo({"a", ".", "*", "?"}, MaxPatternLen),
      u \in SeqsUpTo({"a", "b"}, MaxProbeUrl) }
  \cup
  { [pattern |-> StringPattern(Text_health \o <<"*">>),
     target |-> StringTarget(<<"$", "0">>), url |-> u] :
      u \in {Text_health \o <<"/", "c", "h", "e", "c", "k">>, Text_health,
             <<"/">> \o Text_health} }

\* RegExp patterns with groups against urls, with the targets to resolve
GroupProbes ==
  { [pattern |-> RegExpPattern(src), target |-> tgt, url |-> u] :
      src \in {<<"(", "a", ")", ".", "*">>, <<"a", "(", ".", "*", ")">>,
               <<"(", ".", ")", "(", ".", ")">>},
      tgt \in {StringTarget(<<"$", "0">>), StringTarget(<<"$", "1">>),
               StringTarget(<<"b", "$", "2", "$", "1">>), FunctionTarget},
      u \in SeqsUpTo({"a", "$", "1"}, MaxProbeUrl) }
  \cup
  { [pattern |-> RegExpPattern(Text_api \o <<"1", "/", "(", ".", "*", ")">>),
     target |-> StringTarget(Text_api \o <<"2", "/", "$", "1">>),
     url |-> Text_api \o <<"1", "/", "u", "s", "e", "r", "s">>] }

\* _matchPattern(url, pattern)
MatchPatternCall ==
  /\ probed.step = "none"
  /\ probed' = [step |-> "matched",
                found |-> MatchPattern(probe.url, probe.pattern).found,
                matches |-> MatchPattern(probe.url, probe.pattern).matches,
                thrown |-> MatchPattern(probe.url, probe.pattern).thrown,
                targetUrl |-> <<>>]
  /\ UNCHANGED <<probe, varsCB, varsPM, varsRL, varsLB, varsRT, varsTH, statsRead>>

\* _resolveTarget(target, context, matches), as match calls it
ResolveTargetCall ==
  /\ probed.step = "matched"
  /\ probed.found
  /\ probed' = [probed EXCEPT
       !.step = "resolved",
       !.targetUrl = ResolveTarget(probe.target,
                                   Context(probe.url, FALSE, EmptyMetadata),
                                   probed.matches)]
  /\ UNCHANGED <<probe, varsCB, varsPM, varsRL, varsLB, varsRT, varsTH, statsRead>>

InitMP ==
  /\ \E input \in GlobProbes \cup GroupProbes : NewProbe(input)
  /\ IdleCircuitBreaker
  /\ NewPluginManager("continue")
  /\ IdleRateLimiter
  /\ IdleLoadBalancer
  /\ IdleRouter
  /\ IdleThrottle
  /\ NoStatsRead

NextMP == MatchPatternCall \/ ResolveTargetCall

SpecMP == InitMP /\ [][NextMP]_vars

RECURSIVE FillTemplate(_, _)
\* the template with each placeholder $k that has a captured value
\* replaced by that value, in one pass over the template
FillTemplate(template, matches) ==
  IF template = <<>> THEN <<>>
  ELSE IF /\ Len(template) >= 2
          /\ template[1] = "$"
          /\ \E k \in 0..(Len(matches) - 1) : template[2] = Digits[k + 1]
    THEN matches[1 + CHOOSE k \in 0..(Len(matches) - 1) :
                       template[2] = Digits[k + 1]]
           \o FillTemplate(SubSeq(template, 3, Len(template)), matches)
  ELSE <<Head(template)>> \o FillTemplate(Tail(template), matches)

\* C23: the url resolved for a string target is the template with every
\* placeholder $k replaced by the k-th captured value ($0: the whole
\* match); for a function target it is what the function returns for the
\* context and the match array.
C23_TargetResolved ==
  probed.step = "resolved" =>
    IF probe.target.kind = "function"
      THEN probed.targetUrl =
             TargetFunction(Context(probe.url, FALSE, EmptyMetadata), probed.matches)
      ELSE probed.targetUrl = FillTemplate(probe.target.text, probed.matches)

RECURSIVE GlobMatches(_, _)
\* the whole url equals the pattern, "*" standing for any run of
\* characters, "?" for exactly one and any other character for itself
GlobMatches(pattern, url) ==
  IF pattern = <<>> THEN url = <<>>
  ELSE IF Head(pattern) = "*"
    THEN \E k \in 0..Len(url) :
           GlobMatches(Tail(pattern), SubSeq(url, k + 1, Len(url)))
  ELSE /\ url # <<>>
       /\ Head(pattern) = "?" \/ Head(pattern) = Head(url)
       /\ GlobMatches(Tail(pattern), Tail(url))

\* C24: a string pattern matches a url exactly when the whole url equals
\* the pattern with "*" for any run of characters, "?" for one character
\* and every other character for itself.
C24_StringPatternIsGlob ==
  probed.step # "none" /\ probe.pattern.kind = "string" =>
    (probed.found <=> GlobMatches(probe.pattern.source, probe.url))

-----------------------------------------------------------------------------
(***************************************************************************)
(* PluginManager: errors, disabled plugins, lifecycle, request types       *)
(***************************************************************************)

\* this step is the awaited hook throwing or rejecting
HookThrew == pc = "awaiting" /\ hookLog'[Len(hookLog)].ret = "threw"

\* the positions in the rest of enabledPlugins of the plugins whose hook
\* the loop would call
LaterApplicable == {i \in 1..Len(todo) : Applicable(todo[i], argType)}

\* C25: under the 'continue' policy, when a hook throws or rejects the
\* running value stays as it was, the hook of the next applicable plugin is
\* invoked next (in the order of the list), and when there is none
\* executeHook resolves with the running value.
C25_ContinueAfterError ==
  [][ HookThrew /\ errorStrategy = "continue" =>
        /\ result' = result
        /\ IF LaterApplicable = {}
             THEN pc' = "returned" /\ Len(hookLog') = Len(hookLog)
             ELSE /\ pc' = "awaiting"
                  /\ Len(hookLog') = Len(hookLog) + 1
                  /\ hookLog'[Len(hookLog')].plugin =
                       todo[CHOOSE i \in LaterApplicable :
                              \A j \in LaterApplicable : i <= j]
                  /\ hookLog'[Len(hookLog')].passed = HookArgs(result, args) ]_vars

\* an invocation resolved after its first hook threw and its second hook
\* returned a value
C25_Witness ==
  /\ pc = "returned"
  /\ errorStrategy = "continue"
  /\ Len(hookLog) = 2
  /\ hookLog[1].ret = "threw"
  /\ hookLog[2].ret \notin {Undefined, "threw"}
  /\ result = hookLog[2].ret

\* C26: under 'stop' a throwing hook makes executeHook resolve with the
\* running value as it was, under 'throw' it makes executeHook reject; in
\* both cases no further hook is invoked in the invocation.
C26_StopAndThrowAbort ==
  [][ /\ HookThrew /\ errorStrategy = "stop" =>
           pc' = "returned" /\ result' = result /\ Len(hookLog') = Len(hookLog)
      /\ HookThrew /\ errorStrategy = "throw" =>
           pc' = "thrown" /\ Len(hookLog') = Len(hookLog)
      /\ pc \in {"returned", "thrown"} =>
           pc' = "idle" \/ (pc' = pc /\ hookLog' = hookLog) ]_vars

\* executeHook rejected although a later plugin's hook was applicable
C26_Witness ==
  /\ pc = "thrown"
  /\ hookLog[Len(hookLog)].ret = "threw"
  /\ LaterApplicable # {}

\* C27: no hook of a plugin is invoked while the plugin's enabled flag is
\* false, whenever disable was called.
C27_DisabledNeverInvoked ==
  \A i \in DOMAIN hookLog : hookLog[i].plugin.enabled # "false"

\* ---- the registry with installable plugins and request-type filters ----

\* the plugin objects handed to register(): with and without the
\* install/uninstall/isInstalled methods, and with a requestTypes list
LifecyclePlugins ==
  {PluginObject(n, ty, -1, en, TRUE, {}, ins) :
     n \in PluginNames, ty \in {Undefined, INTERCEPTOR},
     en \in {Undefined, "false"}, ins \in BOOLEAN}
  \cup {PluginObject(n, Undefined, -1, Undefined, TRUE, {"xhr"}, FALSE) :
          n \in PluginNames}

\* the `type` of the first argument ("none": it has no such field)
HookArgTypes == {"xhr", "fetch", "none"}

InitPL ==
  /\ NewPluginManager("continue")
  /\ IdleCircuitBreaker
  /\ IdleFeatures

NextPL ==
  \/ \E obj \in LifecyclePlugins : Register(obj)
  \/ \E n \in PluginNames : Unregister(n)
  \/ \E n \in PluginNames : Enable(n)
  \/ \E n \in PluginNames : Disable(n)
  \/ \E ty \in HookArgTypes : ExecuteHook("v0", ty)
  \/ HookReturns(Undefined)
  \/ Complete

SpecPL == InitPL /\ [][NextPL]_vars

\* C28: when register replaces an installed interceptor plugin registered
\* under the same name, the replaced plugin is uninstalled, and the
\* registry holds one entry for the name.
C28_ReplacedIsTornDown ==
  /\ departed.how = "replaced" => ~departed.installed
  /\ \A i, j \in DOMAIN plugins : plugins[i].name = plugins[j].name => i = j

\* C29: an installed interceptor plugin of the registry is enabled, a
\* plugin removed by unregister is uninstalled, and enable leaves an
\* interceptor plugin installed (disable leaves it uninstalled: it is not
\* enabled then).
C29_InstalledTracksEnabled ==
  /\ [](\A i \in DOMAIN plugins :
          IsInterceptorPlugin(plugins[i]) /\ plugins[i].installed
            => plugins[i].enabled = "true")
  /\ [](departed.how = "unregistered" => ~departed.installed)
  /\ [][ \A n \in PluginNames :
           /\ MapHas(plugins, n) /\ IsInterceptorPlugin(MapGet(plugins, n))
           /\ Enable(n) \/ Disable(n)
           => /\ MapHas(plugins', n)
              /\ MapGet(plugins', n).installed
                   = (MapGet(plugins', n).enabled = "true")
              /\ Enable(n) => MapGet(plugins', n).enabled = "true"
              /\ Disable(n) => MapGet(plugins', n).enabled = "false" ]_vars

\* an installed plugin and a disabled interceptor plugin are registered, and
\* an interceptor plugin was unregistered
C29_Witness ==
  /\ departed.how = "unregistered"
  /\ \E i \in DOMAIN plugins : plugins[i].installed
  /\ \E i \in DOMAIN plugins :
       IsInterceptorPlugin(plugins[i]) /\ plugins[i].enabled = "false"

\* the plugins this step of the loop passed over without calling their hook
PassedOver(list) ==
  {list[i] : i \in 1..(IF pc' = "awaiting" THEN Len(list) - Len(todo') - 1
                       ELSE Len(list))}

\* this step runs the loop of executeHook up to a hook call or the return
LoopRuns ==
  /\ pc \in {"idle", "awaiting"}
  /\ Len(hookLog') > Len(hookLog) \/ pc' = "returned"

\* C30: a hook of a plugin with a non-empty requestTypes list is invoked
\* only if the first argument has no type field or its type is in the list;
\* the loop passes over a plugin that defines the hook only because its
\* non-empty requestTypes list lacks the type of the first argument.
C30_RequestTypeFilter ==
  /\ [](\A i \in DOMAIN hookLog :
          hookLog[i].plugin.requestTypes # {}
            => argType = "none" \/ argType \in hookLog[i].plugin.requestTypes)
  /\ [][ LoopRuns =>
           \A p \in PassedOver(IF pc = "idle" THEN EnabledPlugins ELSE todo) :
             p.hook => /\ p.requestTypes # {}
                       /\ argType' # "none"
                       /\ argType' \notin p.requestTypes ]_vars

\* one invocation called the hook of a plugin with a requestTypes list and
\* the hook of a plugin without one
C30_Witness ==
  /\ pc = "returned"
  /\ Len(hookLog) = 2
  /\ argType = "xhr"
  /\ \E i \in DOMAIN hookLog : hookLog[i].plugin.requestTypes = {"xhr"}
  /\ \E i \in DOMAIN hookLog : hookLog[i].plugin.requestTypes = {}

\* C31: of the hooks one executeHook invocation calls, the hook of a plugin
\* of priority 10 is called before the hook of a plugin of priority 20,
\* whichever was registered first.
C31_TenBeforeTwenty ==
  \A i, j \in DOMAIN hookLog :
    hookLog[i].priority = 10 /\ hookLog[j].priority = 20 => i < j

\* the plugin of priority 20 was registered first and called second
C31_Witness ==
  /\ Len(plugins) = 2
  /\ plugins[1].priority = 20 /\ plugins[2].priority = 10
  /\ Len(hookLog) = 2
  /\ hookLog[1].name = plugins[2].name /\ hookLog[1].priority = 10
  /\ hookLog[2].name = plugins[1].name /\ hookLog[2].priority = 20

-----------------------------------------------------------------------------
(* The sweep of a RateLimiter that holds more records than maxRecords *)

\* The record of a client whose first request, admitted under the fixed
\* window, came at time t.
ClientRecord(t) ==
  [count |-> FromInt(1), resetTime |-> t + 1, timestamps |-> <<>>,
   tokens |-> FromInt(2), lastRefill |-> t]

\* n clients were seen before the first sweep: the first `old` of them at
\* time 1, the others at times 2 to 5, by turns of `step` or in the reverse
\* order.
ClientRecords(n, old, step, reverse) ==
  [i \in 1..n |->
     [key |-> "c" \o ToString(i),
      record |-> ClientRecord(IF i <= old THEN 1
                              ELSE IF reverse THEN 5 - ((i * step) % 4)
                              ELSE 2 + ((i * step) % 4))]]

InitSW ==
  /\ algorithm = FIXED_WINDOW
  /\ windowMs = 1
  /\ maxRequests = 2
  /\ keyGenerator = RlKeys
  /\ \E x \in 1..MaxExcess, old \in {0, 2}, step \in {1, 3}, reverse \in BOOLEAN :
       records = ClientRecords(MaxRecords + old + x, old, step, reverse)
  /\ rlNow = 1 + CleanupInterval
  /\ nextCleanup = 1 + CleanupInterval
  /\ rlLast = [op |-> "init", key |-> "none", allowed |-> FALSE]
  /\ lastCalled = [k \in RlKeys |-> 0]
  /\ firstAdmit = [k \in RlKeys |-> 0]
  /\ admits = [k \in RlKeys |-> 0]
  /\ sinceReset = [k \in RlKeys |-> 0]
  /\ evicted = <<>>
  /\ recentAdmits = [k \in RlKeys |-> <<>>]
  /\ IdleCircuitBreaker
  /\ NewPluginManager("continue")
  /\ IdleLoadBalancer
  /\ IdleRouter
  /\ IdleProbe
  /\ IdleThrottle
  /\ NoStatsRead

NextSW ==
  \/ \E k \in keyGenerator : AllowRequest(k)
  \/ CleanupExpiredRecords

SpecSW == InitSW /\ [][NextSW]_vars

\* C32: a sweep leaves at most maxRecords records, and every record it
\* removed for the cap (one that was not expired) has a resetTime no greater
\* than that of any record it kept.
C32_CapEvictsOldest ==
  [][rlLast'.op = "cleanup" /\ nextCleanup' # nextCleanup
       => /\ Len(records') <= MaxRecords
          /\ LET kept == {records'[j].key : j \in DOMAIN records'}
                 least == CHOOSE u \in {records'[j].record.resetTime : j \in DOMAIN records'} :
                            \A j \in DOMAIN records' : u <= records'[j].record.resetTime
             IN \A i \in DOMAIN records :
                  ~Expired(records[i]) /\ records[i].key \notin kept
                    => records[i].record.resetTime <= least]_vars

\* a sweep has removed expired records and, for the cap, records that were
\* not the first of the Map
C32_Witness ==
  /\ rlLast.op = "cleanup"
  /\ Len(records) = MaxRecords
  /\ Len(evicted) >= 2
  /\ records[1].key = "c3"
  /\ \E i \in DOMAIN evicted : evicted[i].key # "c4"

-----------------------------------------------------------------------------
(* The breaker with manual resets *)

NextCM == NextCB \/ Reset

SpecCM == InitCB /\ [][NextCM]_vars

\* C33: right after reset() the breaker is CLOSED, its three counters are 0
\* and its list of failure timestamps is empty, whatever the state it was
\* called in; and reset() apart, the breaker leaves OPEN for HALF_OPEN and
\* HALF_OPEN for CLOSED or OPEN only: it is never closed from OPEN.
C33_ResetClosesAndClears ==
  /\ [](cbLast = "reset"
          => /\ state = CLOSED
             /\ failureCount = 0 /\ successCount = 0 /\ totalRequests = 0
             /\ requestTimestamps = <<>>)
  /\ [][cbLast' # "reset" /\ state' = CLOSED => state \in {CLOSED, HALF_OPEN}]_vars

\* reset() was called on a HALF_OPEN breaker with a call in flight
C33_Witness ==
  /\ cbLast = "reset"
  /\ cbPrev = HALF_OPEN
  /\ calls # EmptyBag
  /\ lastFailureTime > 0

\* reset() was called on an OPEN breaker
C33_WitnessOpen == cbLast = "reset" /\ cbPrev = OPEN

-----------------------------------------------------------------------------
(* getStats() of the breaker, the limiter and the balancer *)

GetStatsFrame == UNCHANGED <<varsCB, varsPM, varsRL, varsLB, varsRT, varsMP, varsTH>>

\* mutant: getStats() of the breaker brings the counters up to date first
GetStatsCleaning ==
  LET c == CleanOldRequests(requestTimestamps, totalRequests, failureCount, now)
  IN /\ statsRead' = "breaker"
     /\ requestTimestamps' = c.ts
     /\ totalRequests' = c.total
     /\ failureCount' = c.fc
     /\ UNCHANGED <<state, successCount, lastFailureTime, failureThreshold,
                    successThreshold, timeout, resetTimeout, monitoringPeriod, now,
                    calls, lateTimers, lateOps, cbLast, cbPrev, hoSuccesses, okNow,
                    failNow, resets>>
     /\ UNCHANGED <<varsPM, varsRL, varsLB, varsRT, varsMP, varsTH>>

\* CircuitBreaker.getStats(): an object built from the fields
GetStatsCB ==
  /\ statsRead' = "breaker"
  /\ GetStatsFrame

\* RateLimiter.getStats(): an object built from the configuration and a
\* mapping of the records
GetStatsRL ==
  /\ statsRead' = "limiter"
  /\ GetStatsFrame

\* LoadBalancer.getStats(): an object built from the strategy, the servers,
\* _getHealthyServers(), the connection counts and _getAverageResponseTime
GetStatsLB ==
  /\ statsRead' = "balancer"
  /\ GetStatsFrame

\* One of the three objects is operated, the other two stay as constructed;
\* getStats() is called on any of them at any moment.
InitGS ==
  /\ IdleCircuitBreaker
  /\ NewPluginManager("continue")
  /\ IdleFeatures

NextGS ==
  \/ IdleRateLimiter /\ IdleLoadBalancer /\ NextCB
  \/ IdleCircuitBreaker /\ IdleLoadBalancer /\ NextRL
  \/ IdleCircuitBreaker /\ IdleRateLimiter /\ NextLB
  \/ GetStatsCB
  \/ GetStatsRL
  \/ GetStatsLB

SpecGS == InitGS /\ [][NextGS]_vars

\* C34: a getStats() call of the breaker, the limiter or the balancer leaves
\* every field of the three objects as it was.
C34_GetStatsReadOnly ==
  [][GetStatsCB \/ GetStatsRL \/ GetStatsLB
       => UNCHANGED <<state, failureCount, successCount, totalRequests,
                      lastFailureTime, requestTimestamps, records, servers,
                      strategy, currentIndex, connectionCounts, responseTimes>>]_vars

\* getStats() of the breaker was called and the breaker has failures on
\* record that have since left the monitoring period
C34_Witness ==
  /\ statsRead = "breaker"
  /\ totalRequests > 0
  /\ requestTimestamps # <<>>
  /\ \A i \in DOMAIN requestTimestamps : requestTimestamps[i] <= now - monitoringPeriod

-----------------------------------------------------------------------------
(* The sliding window without reset, resetAll, destroy or sweep *)

InitSL ==
  /\ NewRateLimiter([algorithm |-> SLIDING_WINDOW, windowMs |-> 1, maxRequests |-> 2,
                     keyGenerator |-> RlKeys])
  /\ IdleCircuitBreaker
  /\ NewPluginManager("continue")
  /\ IdleLoadBalancer
  /\ IdleRouter
  /\ IdleProbe
  /\ IdleThrottle
  /\ NoStatsRead

NextSL ==
  \/ \E k \in keyGenerator : AllowRequest(k)
  \/ RlTick

SpecSL == InitSL /\ [][NextSL]_vars

\* the entries of a list of timestamps equal to t
CountOf(ts, t) == Len(SelectSeq(ts, LAMBDA u : u = t))

\* C35: under the sliding window, the calls admitted for a key at times in
\* (now - windowMs, now] are at most maxRequests and are the entries of the
\* stored list that lie in this window; the stored list has at most
\* maxRequests entries; a denied call adds no entry.
C35_SlidingWindowBound ==
  /\ [](\A k \in RlKeys :
          /\ Len(recentAdmits[k]) <= maxRequests
          /\ HasRecord(records, k)
               => /\ Len(RecordOf(records, k).timestamps) <= maxRequests
                  /\ SelectSeq(RecordOf(records, k).timestamps,
                               LAMBDA t : t > rlNow - windowMs) = recentAdmits[k]
          /\ ~HasRecord(records, k) => recentAdmits[k] = <<>>)
  /\ [][\A k \in RlKeys :
          rlLast'.op = "allowRequest" /\ rlLast'.key = k /\ ~rlLast'.allowed
            /\ rlNow' = rlNow /\ HasRecord(records, k)
            => CountOf(RecordOf(records', k).timestamps, rlNow)
                 = CountOf(RecordOf(records, k).timestamps, rlNow)]_vars

\* a call was denied at a time at which maxRequests calls had been admitted,
\* after the window had moved on from earlier admissions
C35_Witness ==
  /\ rlLast.op = "allowRequest" /\ ~rlLast.allowed
  /\ rlNow >= 3
  /\ firstAdmit[rlLast.key] < rlNow
  /\ Len(recentAdmits[rlLast.key]) = maxRequests

-----------------------------------------------------------------------------
(* The leaky bucket with a leak of half a request per clock unit *)

InitLK ==
  /\ NewRateLimiter([algorithm |-> LEAKY_BUCKET, windowMs |-> 4, maxRequests |-> 2,
                     keyGenerator |-> RlKeys])
  /\ IdleCircuitBreaker
  /\ NewPluginManager("continue")
  /\ IdleLoadBalancer
  /\ IdleRouter
  /\ IdleProbe
  /\ IdleThrottle
  /\ NoStatsRead

NextLK ==
  \/ \E k \in keyGenerator : AllowRequest(k)
  \/ RlTick

SpecLK == InitLK /\ [][NextLK]_vars

\* C36: under the leaky bucket the level (count) of every record is at least
\* 0 and at most maxRequests.
C36_LevelWithinBounds ==
  \A i \in DOMAIN records :
    /\ ~FLess(records[i].record.count, FromInt(0))
    /\ ~FLess(FromInt(maxRequests), records[i].record.count)

\* the level is never below 0 and never reaches maxRequests + 1
C36_LevelBelowNext ==
  \A i \in DOMAIN records :
    /\ ~FLess(records[i].record.count, FromInt(0))
    /\ FLess(records[i].record.count, FromInt(maxRequests + 1))

-----------------------------------------------------------------------------
(* The breaker under fairness *)

\* Time advances, callers keep calling allow(), and an operation in flight
\* settles or is overtaken by its timer: Promise.race settles no later than
\* the timer of _timeout().
FairSpecCB ==
  /\ SpecCB
  /\ WF_vars(Tick)
  /\ WF_vars(Allow)
  /\ WF_vars(OpResolve \/ OpReject \/ TimerFire)

\* C37: an allow() call on an OPEN breaker at or after lastFailureTime +
\* resetTimeout makes it HALF_OPEN and starts the operation; and every OPEN
\* state is followed by a HALF_OPEN one, unless lastFailureTime +
\* resetTimeout lies beyond the last clock value MaxTime.
C37_OpenIsLeft ==
  /\ [][Allow /\ state = OPEN /\ lastFailureTime # 0
          /\ now - lastFailureTime >= resetTimeout
          => /\ state' = HALF_OPEN
             /\ BagCardinality(calls') = BagCardinality(calls) + 1]_vars
  /\ (state = OPEN) ~> (state = HALF_OPEN \/ lastFailureTime + resetTimeout > MaxTime)

\* an allow() call has moved the breaker from OPEN to HALF_OPEN after an
\* operation admitted before the opening had failed while the breaker was OPEN
C37_Witness ==
  /\ state = HALF_OPEN
  /\ cbPrev = OPEN
  /\ cbLast = "allow"
  /\ lastFailureTime > 1

-----------------------------------------------------------------------------
(* Operations that outlive the state they were admitted in *)

\* the step settles the race of the call c
Settles(c) == BagIn(c, calls) /\ calls' = calls (-) SetToBag({c})

\* C38: when the race of a call admitted while the breaker was CLOSED settles
\* and the breaker is OPEN or HALF_OPEN, the state, successCount and
\* lastFailureTime stay as they are.
C38_StaleOutcomeIgnored ==
  [][\A c \in BagToSet(calls) :
       Settles(c) /\ c.adm = CLOSED /\ state \in {OPEN, HALF_OPEN}
         => /\ state' = state
            /\ successCount' = successCount
            /\ lastFailureTime' = lastFailureTime]_vars

\* the parts of C38, one by one
C38_StateKept ==
  [][\A c \in BagToSet(calls) :
       Settles(c) /\ c.adm = CLOSED /\ state \in {OPEN, HALF_OPEN}
         => state' = state]_vars

C38_SuccessCountKept ==
  [][\A c \in BagToSet(calls) :
       Settles(c) /\ c.adm = CLOSED /\ state \in {OPEN, HALF_OPEN}
         => successCount' = successCount \/ state' # state]_vars

C38_LastFailureTimeKept ==
  [][\A c \in BagToSet(calls) :
       Settles(c) /\ c.adm = CLOSED /\ state = OPEN
         => lastFailureTime' = lastFailureTime]_vars

-----------------------------------------------------------------------------
(* The balancer with destroy() and servers that one failure brings down *)

\* mutant: destroy() also cancels the recovery timers
DestroyCancelsTimers ==
  /\ connectionCounts' = [u \in LbUrls |-> 0]
  /\ responseTimes' = [u \in LbUrls |-> <<>>]
  /\ recoveryTimers' = {}
  /\ lbLast' = [op |-> "destroy", url |-> "none", ret |-> 0]
  /\ UNCHANGED <<servers, strategy, currentIndex, lbNow, nextId>>
  /\ LbHistoryUnchanged
  /\ LbOthersUnchanged

\* destroy(): the cleanup interval is cleared, connectionCounts and
\* responseTimes are emptied; the timers of markFailed are not held anywhere
\* and stay armed
Destroy ==
  /\ connectionCounts' = [u \in LbUrls |-> 0]
  /\ responseTimes' = [u \in LbUrls |-> <<>>]
  /\ lbLast' = [op |-> "destroy", url |-> "none", ret |-> 0]
  /\ UNCHANGED <<servers, strategy, currentIndex, lbNow, recoveryTimers, nextId>>
  /\ LbHistoryUnchanged
  /\ LbOthersUnchanged

\* servers added with maxFails 1
FlakyServers == [url : LbUrls, enabled : {TRUE}, maxFails : {1}, failTimeout : {1}]

InitLD ==
  /\ NewLoadBalancer(LEAST_CONNECTIONS)
  /\ IdleCircuitBreaker
  /\ NewPluginManager("continue")
  /\ IdleRateLimiter
  /\ IdleRouter
  /\ IdleProbe
  /\ IdleThrottle
  /\ NoStatsRead

NextLD ==
  \/ \E server \in FlakyServers : AddServer(server)
  \/ \E url \in LbUrls : RemoveServer(url)
  \/ \E str \in HashInputs : GetNextServer(str)
  \/ \E url \in LbUrls : IncrementConnections(url)
  \/ \E url \in LbUrls : MarkFailed(url)
  \/ \E url \in LbUrls : MarkSuccess(url)
  \/ TryRecoverServer
  \/ Destroy
  \/ LbTick

SpecLD == InitLD /\ [][NextLD]_vars

\* C39: a server of the list that is unhealthy, its failures having reached
\* maxFails at time t with no markSuccess since, has a recovery timer pending
\* that is due at t + failTimeout or earlier, and the time is not past
\* t + failTimeout.
C39_RecoveryTimerPending ==
  \A i \in DOMAIN servers :
    (~servers[i].healthy /\ downSince[servers[i].id] # 0)
      => /\ \E tm \in recoveryTimers :
              /\ tm.id = servers[i].id
              /\ tm.due <= downSince[servers[i].id] + servers[i].failTimeout
         /\ lbNow <= downSince[servers[i].id] + servers[i].failTimeout

\* destroy() was called while a server was unhealthy that a second markFailed
\* call had found unhealthy
C39_Witness ==
  /\ lbLast.op = "destroy"
  /\ \E i \in DOMAIN servers :
       /\ ~servers[i].healthy
       /\ servers[i].currentFails > servers[i].maxFails
       /\ downSince[servers[i].id] # 0

\* the timer of an unhealthy server has fired after destroy()
C39_WitnessRecovered ==
  /\ lbNow = 2
  /\ \E i \in DOMAIN servers :
       /\ servers[i].healthy
       /\ downSince[servers[i].id] = 1
       /\ failsSince[servers[i].id] = 0

-----------------------------------------------------------------------------
(***************************************************************************)
(* ThrottleStrategy (packages/core/src/Strategies.ts)                      *)
(***************************************************************************)

\* this.lastRequestTime.get(context.url) || 0
LastTime(url) ==
  IF url \in DOMAIN lastRequestTime THEN lastRequestTime[url] ELSE 0

\* this.lastRequestTime.set(context.url, getTimestamp()) and the return:
\* the call completes
SetAndReturn(url) ==
  /\ lastRequestTime' = [u \in DOMAIN lastRequestTime \cup {url} |->
                           IF u = url THEN thNow ELSE lastRequestTime[u]]
  /\ released' = [released EXCEPT ![url] = Append(@, thNow)]

\* the handleRequest calls made so far
ThrottleCalls ==
  Len(sleepers) + Len(released["/a"]) + Len(released["/b"])

\* handleRequest(context) up to its await, or to its end when it does not wait
HandleRequest(url) ==
  LET elapsed == thNow - LastTime(url)
  IN /\ ThrottleCalls < MaxThrottleCalls
     /\ IF elapsed < ThrottleInterval
        THEN /\ sleepers' = Append(sleepers,
                                   [url |-> url, due |-> thNow + (ThrottleInterval - elapsed)])
             /\ UNCHANGED <<lastRequestTime, released>>
        ELSE /\ SetAndReturn(url)
             /\ UNCHANGED sleepers
     /\ UNCHANGED <<thNow, varsCB, varsPM, varsRL, varsLB, varsRT, varsMP, statsRead>>

\* the timer of a waiting call fires: handleRequest resumes after the await
Wake ==
  \E i \in DOMAIN sleepers :
    /\ sleepers[i].due <= thNow
    /\ sleepers' = SubSeq(sleepers, 1, i - 1) \o SubSeq(sleepers, i + 1, Len(sleepers))
    /\ SetAndReturn(sleepers[i].url)
    /\ UNCHANGED <<thNow, varsCB, varsPM, varsRL, varsLB, varsRT, varsMP, statsRead>>

\* the clock advances; the timers that are due fire first
ThrottleTick ==
  /\ thNow < MaxThrottleTime
  /\ \A i \in DOMAIN sleepers : sleepers[i].due > thNow
  /\ thNow' = thNow + 1
  /\ UNCHANGED <<lastRequestTime, sleepers, released>>
  /\ UNCHANGED <<varsCB, varsPM, varsRL, varsLB, varsRT, varsMP, statsRead>>

InitTH ==
  /\ NewThrottle
  /\ IdleCircuitBreaker
  /\ NewPluginManager("continue")
  /\ IdleRateLimiter
  /\ IdleLoadBalancer
  /\ IdleRouter
  /\ IdleProbe
  /\ NoStatsRead

NextTH ==
  \/ \E url \in ThrottleUrls : HandleRequest(url)
  \/ Wake
  \/ ThrottleTick

SpecTH == InitTH /\ [][NextTH]_vars

\* C40: the times at which two handleRequest calls for one url complete are
\* at least `interval` apart.
C40_CompletionsSpaced ==
  \A url \in ThrottleUrls :
    \A i, j \in DOMAIN released[url] :
      i < j => released[url][j] - released[url][i] >= ThrottleInterval

=============================================================================
